---- MODULE Spec2Model ----
(***************************************************************************)
(* Project-AI core: the learning-request ledger (LearningRequestManager),  *)
(* the atomic JSON writer with its lock file, and the Codex generator with *)
(* its staging, quality gate, integration and rollback.                    *)
(*                                                                         *)
(* Strings that the code only compares or hashes are TLA+ strings.  Topics *)
(* and request ids, which the code sanitises and embeds in file names, are *)
(* strings too; tables give what the code computes from each.              *)
(***************************************************************************)
EXTENDS Integers, Sequences, FiniteSets, TLC

VARIABLES
    \* ---- LearningRequestManager (src/app/core/ai_systems.py) ----
    requests,            \* self.requests: req_id -> request dict
    black_vault,         \* self.black_vault: set of content hashes
    approval_listeners,  \* self._approval_listeners: list of callbacks
    notify_queue,        \* self._notify_queue: queued (req_id, request) events
    db_requests,         \* table requests of requests.db: id -> row
    db_vault,            \* table black_vault of requests.db
    denied_to_vault,     \* history: descriptions for which deny(.., to_vault=True) succeeded
    peer,                \* a second LearningRequestManager on the same data directory
    dispatch,            \* _notify_worker: where the thread is, the event and listeners at hand
    pool,                \* _notify_executor: every submitted call, in submission order
    last,                \* the most recent call: its name, arguments and return value
    \* ---- _atomic_write_json and its lock file (src/app/core/ai_systems.py) ----
    lock_file,           \* file_path + ".lock": NoLock, EmptyLock or WrittenLock(pid, stale)
    target_file,         \* file_path: Absent or the JSON text it holds
    tmp_file,            \* each writer's mkstemp file: Absent or the text written so far
    pc,                  \* each writer's position in _atomic_write_json
    info,                \* each writer's local `info`, the result of _read_lockfile
    pid_of,              \* each writer's os.getpid()
    \* ---- AccessControlManager (src/app/core/access_control.py) ----
    users,               \* self._users: user -> roles
    ac_storage,          \* data/access_control.json: missing, unreadable or a table
    manager,             \* whether the singleton _manager is constructed
    \* ---- CouncilHub (src/app/core/council_hub.py) ----
    hub_project,         \* whether hub._project is set (register_project was called)
    agents_enabled,      \* hub._agents_enabled of qa_generator and dependency_auditor
    agents,              \* hub._agents: agent id -> [obj, active]
    invoked,             \* the methods of agent objects the latest route_message called
    cerberus_result,     \* what _consult_cerberus returned to the latest route_message
    autolearn_stop,      \* hub._autolearn_stop: whether the event is set
    loop_pc,             \* hub._autolearn_thread and its position in _autolearn_loop
    inbox,               \* the .txt files of data/autolearn not yet consumed
    \* ---- CodexDeusMaximus (src/app/agents/codex_deus_maximus.py) ----
    allow_integration,   \* self.allow_integration
    read_only,           \* the target modules whose open(tgt, "a") raises PermissionError
    learning_manager,    \* whether self.learning_manager is set by the adapter
    current_style,       \* self.current_style
    seen,                \* self._seen: fingerprints of ignored descriptions
    generated,           \* the .py files of generated_dir: stem -> content
    archives,            \* the archived copies under generated_dir/<topic>/
    targets,             \* the target modules: path -> file
    backups,             \* the ".codexbak" files: target path -> file
    staged,              \* the staged records of waiting_room/staged: path -> metadata
    held_report,         \* the integration report the caller holds for a rollback
    audit_file,          \* data/codex_audit.json: the list of entries it holds
    audit_data,          \* _audit: the local `data` of each pool call that has read the file
    failed_checks,       \* history: failed_checks of the latest integrate_approved
    audited,             \* history: the files both checks ran on in the latest integration
    before               \* history: targets and backups when the latest integration began

ledgerVars == <<requests, black_vault, approval_listeners, notify_queue,
                db_requests, db_vault, denied_to_vault, peer>>

notifyVars == <<dispatch, pool>>

lockVars == <<lock_file, target_file, tmp_file, pc, info, pid_of>>

accessVars == <<users, ac_storage, manager>>

hubGate == <<hub_project, agents_enabled>>
hubRouting == <<agents, invoked, cerberus_result>>
hubLoop == <<autolearn_stop, loop_pc, inbox>>
hubVars == <<hubGate, hubRouting, hubLoop>>

codexVars == <<allow_integration, read_only, learning_manager, current_style, seen, generated,
               archives, targets, backups, staged, held_report,
               failed_checks, audited, before>>

\* The audit log, followed for the calls of _audit that run on pool threads.
auditVars == <<audit_file, audit_data>>

vars == <<ledgerVars, notifyVars, last, lockVars, accessVars, hubVars, codexVars,
          auditVars>>

\* What no ledger call touches, what no step of a writer touches, and what no
\* call of the access control manager, the hub or Codex touches.
outsideLedger == <<notifyVars, lockVars, accessVars, hubVars, codexVars, auditVars>>
outsideLock == <<ledgerVars, notifyVars, last, accessVars, hubVars, codexVars, auditVars>>
outsideAccess == <<ledgerVars, notifyVars, lockVars, hubVars, codexVars, auditVars>>
outsideHub == <<ledgerVars, notifyVars, lockVars, accessVars, codexVars, auditVars>>
outsideCodex == <<ledgerVars, notifyVars, lockVars, auditVars>>

-----------------------------------------------------------------------------
(* Bounds of the model *)

\* The wall clock reads 0..MaxClock.
MaxClock == 0
\* The ledger holds at most MaxRequests requests.
MaxRequests == 2
\* Items put on the notification queue in one run.
MaxEvents == 2
\* The writers that call _atomic_write_json on one path.
NumWriters == 2

-----------------------------------------------------------------------------
(* Values *)

\* A key a Python dict does not hold (dict.get(key) is None).
None == "<none>"

\* RequestStatus
PENDING == "pending"
APPROVED == "approved"
DENIED == "denied"

\* RequestPriority
PriorityLow == 1
PriorityMedium == 2
PriorityHigh == 3

Topics == {"", "docs", "a-b"}
Descriptions == {"", "hello", "two\nlines"}
Priorities == {PriorityMedium}
Responses == {"ok"}
Reasons == {"no"}
CorrelationIds == {"c1"}
Listeners == {"codex._on_approved"}

\* hashlib.sha256(text).hexdigest(): distinct texts have distinct digests.
Sha256(text) == <<"sha256", text>>

\* sha256(f"{timestamp_iso}{topic}")[:12]: the id is a function of the creation
\* time and the topic alone.
RequestId(ts, topic) == ToString(<<ts, topic>>)

Call(op, args, ret) == [op |-> op, args |-> args, ret |-> ret]

-----------------------------------------------------------------------------
(* LearningRequestManager *)

\* One row of table requests: the eight columns _save_requests writes.
Row(r) == [topic |-> r.topic, description |-> r.description, priority |-> r.priority,
           status |-> r.status, created |-> r.created,
           response |-> r.response, reason |-> r.reason]

\* INSERT OR IGNORE in place of REPLACE: a row once written is never updated.
InsertedRequests(reqs, rows) ==
    [id \in DOMAIN rows \cup DOMAIN reqs |->
        IF id \in DOMAIN rows THEN rows[id] ELSE Row(reqs[id])]

\* REPLACE INTO requests for every in-memory request: rows of other ids stay.
SavedRequests(reqs, rows) ==
    [id \in DOMAIN rows \cup DOMAIN reqs |->
        IF id \in DOMAIN reqs THEN Row(reqs[id]) ELSE rows[id]]

\* DELETE FROM black_vault, then one INSERT per in-memory hash.
SavedVault(vault, table) == vault

_save_requests(reqs, vault) ==
    /\ db_requests' = SavedRequests(reqs, db_requests)
    /\ db_vault' = SavedVault(vault, db_vault)

NewRequest(topic, description, priority, ts) ==
    [topic |-> topic, description |-> description, priority |-> priority,
     status |-> PENDING, created |-> ts,
     response |-> None, reason |-> None, correlation_id |-> None]

Put(f, k, v) == [x \in DOMAIN f \cup {k} |-> IF x = k THEN v ELSE f[x]]

\* timestamp = datetime.now(): a naive local wall-clock reading, which may
\* repeat or step back (clock adjustment, end of daylight saving time).
Timestamps == 0..MaxClock

\* A test of the arguments that forgets the description.
MissingTopic(topic, description) == topic = ""

\* not topic or not description
MissingText(topic, description) == topic = "" \/ description = ""

create_request(topic, description, priority) ==
    LET call(ret) == Call("create_request", <<topic, description, priority>>, ret)
        content_hash == Sha256(description)
    IN  /\ UNCHANGED outsideLedger
        /\ IF MissingText(topic, description)
           THEN /\ last' = call("")
                /\ UNCHANGED ledgerVars
           ELSE IF content_hash \in black_vault
           THEN /\ last' = call("")
                /\ UNCHANGED ledgerVars
           ELSE \E timestamp \in Timestamps :
                LET req_id == RequestId(timestamp, topic)
                IN  /\ \/ req_id \in DOMAIN requests
                       \/ Cardinality(DOMAIN requests) < MaxRequests
                    /\ requests' =
                          Put(requests, req_id,
                              NewRequest(topic, description, priority, timestamp))
                    /\ _save_requests(requests', black_vault)
                    /\ last' = call(req_id)
                    /\ UNCHANGED <<black_vault, approval_listeners, notify_queue,
                                   denied_to_vault, peer>>

\* self._notify_approval_listeners(req_id, request): LearningRequestManager
\* defines no such method, so the call raises AttributeError, which
\* approve_request catches and logs; nothing is put on the queue.
_notify_approval_listeners(req_id, request) ==
    notify_queue' = notify_queue

approve_request(req_id, response) ==
    /\ UNCHANGED outsideLedger
    /\ IF req_id \notin DOMAIN requests
       THEN /\ last' = Call("approve_request", <<req_id, response>>, FALSE)
            /\ UNCHANGED ledgerVars
       ELSE \E corr \in CorrelationIds :
            /\ requests' = [requests EXCEPT ![req_id].status = APPROVED,
                                            ![req_id].response = response,
                                            ![req_id].correlation_id = corr]
            /\ _notify_approval_listeners(req_id, requests'[req_id])
            /\ _save_requests(requests', black_vault)
            /\ last' = Call("approve_request", <<req_id, response>>, TRUE)
            /\ UNCHANGED <<black_vault, approval_listeners, denied_to_vault, peer>>

\* A plausible slip: the vault entry is derived from the topic, not the description.
VaultAfterDenyHashingTopic(vault, request, to_vault) ==
    IF to_vault THEN vault \cup {Sha256(request.topic)} ELSE vault

\* A deny that vaults the description whatever to_vault says.
VaultAfterDenyIgnoringFlag(vault, request, to_vault) ==
    vault \cup {Sha256(request.description)}

\* if to_vault: self.black_vault.add(sha256(description))
VaultAfterDeny(vault, request, to_vault) ==
    IF to_vault THEN vault \cup {Sha256(request.description)} ELSE vault

deny_request(req_id, reason, to_vault) ==
    /\ UNCHANGED outsideLedger
    /\ IF req_id \notin DOMAIN requests
       THEN /\ last' = Call("deny_request", <<req_id, reason, to_vault>>, FALSE)
            /\ UNCHANGED ledgerVars
       ELSE /\ requests' = [requests EXCEPT ![req_id].status = DENIED,
                                            ![req_id].reason = reason]
            /\ black_vault' = VaultAfterDeny(black_vault, requests[req_id], to_vault)
            /\ denied_to_vault' =
                  IF to_vault
                  THEN denied_to_vault \cup {requests[req_id].description}
                  ELSE denied_to_vault
            /\ _save_requests(requests', black_vault')
            /\ last' = Call("deny_request", <<req_id, reason, to_vault>>, TRUE)
            /\ UNCHANGED <<approval_listeners, notify_queue, peer>>

register_approval_listener(callback) ==
    /\ approval_listeners' =
          IF \E i \in 1..Len(approval_listeners) : approval_listeners[i] = callback
          THEN approval_listeners
          ELSE Append(approval_listeners, callback)
    /\ last' = Call("register_approval_listener", <<callback>>, None)
    /\ UNCHANGED outsideLedger
    /\ UNCHANGED <<requests, black_vault, notify_queue, db_requests, db_vault,
                   denied_to_vault, peer>>

\* _load_requests(): each row becomes a dict of the seven selected columns,
\* so a correlation_id, which has no column, is not there after a load.
LoadedRequest(row) ==
    [topic |-> row.topic, description |-> row.description, priority |-> row.priority,
     status |-> row.status, created |-> row.created,
     response |-> row.response, reason |-> row.reason, correlation_id |-> None]

_load_requests(rows, table) ==
    [requests |-> [id \in DOMAIN rows |-> LoadedRequest(rows[id])],
     black_vault |-> table]

\* LearningRequestManager(data_dir) on the directory of the ledger at hand,
\* which takes its place: no listeners, an empty queue, requests and vault
\* as _load_requests reads them from requests.db.
reopen ==
    LET loaded == _load_requests(db_requests, db_vault)
    IN  /\ requests' = loaded.requests
        /\ black_vault' = loaded.black_vault
        /\ approval_listeners' = <<>>
        /\ notify_queue' = <<>>
        /\ last' = Call("__init__", <<>>, None)
        /\ UNCHANGED <<db_requests, db_vault, denied_to_vault, peer>>
        /\ UNCHANGED outsideLedger

\* The memory of a LearningRequestManager: __init__ gives it no listeners and
\* an empty queue, and _load_requests gives it the rows and the vault table.
Memory(loaded) ==
    [opened |-> TRUE, requests |-> loaded.requests, black_vault |-> loaded.black_vault,
     approval_listeners |-> <<>>, notify_queue |-> <<>>]

\* No second manager has been constructed.
NoPeer ==
    [opened |-> FALSE, requests |-> <<>>, black_vault |-> {},
     approval_listeners |-> <<>>, notify_queue |-> <<>>]

\* LearningRequestManager(data_dir) a second time on the same directory, the
\* first manager staying in use: the second one loads what requests.db holds
\* at this moment.
open_peer ==
    /\ ~peer.opened
    /\ peer' = Memory(_load_requests(db_requests, db_vault))
    /\ last' = Call("open_peer", <<>>, None)
    /\ UNCHANGED <<requests, black_vault, approval_listeners, notify_queue,
                   db_requests, db_vault, denied_to_vault>>
    /\ UNCHANGED outsideLedger

\* The caller turns to the other manager: the next calls are made on it.
\* Neither memory nor requests.db changes.
switch_ledger ==
    /\ peer.opened
    /\ peer' = [opened |-> TRUE, requests |-> requests, black_vault |-> black_vault,
                approval_listeners |-> approval_listeners,
                notify_queue |-> notify_queue]
    /\ requests' = peer.requests
    /\ black_vault' = peer.black_vault
    /\ approval_listeners' = peer.approval_listeners
    /\ notify_queue' = peer.notify_queue
    /\ last' = Call("switch_ledger", <<>>, None)
    /\ UNCHANGED <<db_requests, db_vault, denied_to_vault>>
    /\ UNCHANGED outsideLedger

\* ---- the read side

\* [r for r in self.requests.values() if r["status"] == status], by id
WithStatus(reqs, status) ==
    [id \in {k \in DOMAIN reqs : reqs[k].status = status} |-> reqs[id]]

\* A count of vault entries taken from the denied requests.
DeniedRequestsAsVaultEntries(reqs, vault) ==
    Cardinality(DOMAIN WithStatus(reqs, DENIED))

\* len(self.black_vault)
vault_entries(reqs, vault) == Cardinality(vault)

get_pending ==
    /\ last' = Call("get_pending", <<>>, WithStatus(requests, PENDING))
    /\ UNCHANGED ledgerVars
    /\ UNCHANGED outsideLedger

get_statistics ==
    /\ last' = Call("get_statistics", <<>>,
                    [pending |-> Cardinality(DOMAIN WithStatus(requests, PENDING)),
                     approved |-> Cardinality(DOMAIN WithStatus(requests, APPROVED)),
                     denied |-> Cardinality(DOMAIN WithStatus(requests, DENIED)),
                     vault_entries |-> vault_entries(requests, black_vault)])
    /\ UNCHANGED ledgerVars
    /\ UNCHANGED outsideLedger

\* ---- the notification thread and its pool

\* An item of _notify_queue: (req_id, request), request being the dict of
\* self.requests; seq tells the items apart: the n-th put has seq n.
Event(seq, req_id) == [seq |-> seq, req_id |-> req_id]
NoEvent == Event(0, "")

\* _notify_worker blocked in self._notify_queue.get(), after taken items.
Waiting(taken) ==
    [pc |-> "get", event |-> NoEvent, pending |-> <<>>, snapshot |-> <<>>,
     taken |-> taken]

\* ThreadPoolExecutor(max_workers=4)
max_workers == 4

\* self._notify_queue.put((req_id, request)) for an approved request: the
\* way an item comes to be on the queue.  No method of the class calls it.
_notify_queue_put(req_id) ==
    /\ req_id \in DOMAIN requests
    /\ requests[req_id].status = APPROVED
    /\ dispatch.taken + Len(notify_queue) < MaxEvents
    /\ notify_queue' =
          Append(notify_queue, Event(dispatch.taken + Len(notify_queue) + 1, req_id))
    /\ last' = Call("_notify_queue.put", <<req_id>>, None)
    /\ UNCHANGED <<requests, black_vault, approval_listeners, db_requests, db_vault,
                   denied_to_vault, peer>>
    /\ UNCHANGED outsideLedger

\* A queue that hands out its newest item.
NewestEvent(queue) == queue[Len(queue)]
WithoutNewest(queue) == SubSeq(queue, 1, Len(queue) - 1)

\* queue.Queue.get(): the oldest item, and what stays.
OldestEvent(queue) == Head(queue)
WithoutOldest(queue) == Tail(queue)

\* req_id, request = self._notify_queue.get(); for cb in
\* list(self._approval_listeners): the listeners are copied here.  With no
\* listener the loop body never runs and task_done() ends the round.
_notify_worker_get ==
    /\ dispatch.pc = "get"
    /\ notify_queue # <<>>
    /\ notify_queue' = WithoutOldest(notify_queue)
    /\ dispatch' =
          IF approval_listeners = <<>>
          THEN [Waiting(dispatch.taken + 1) EXCEPT
                   !.event = OldestEvent(notify_queue)]
          ELSE [pc |-> "submit", event |-> OldestEvent(notify_queue),
                pending |-> approval_listeners, snapshot |-> approval_listeners,
                taken |-> dispatch.taken + 1]
    /\ UNCHANGED <<requests, black_vault, approval_listeners, db_requests, db_vault,
                   denied_to_vault, peer, pool, last>>
    /\ UNCHANGED <<lockVars, accessVars, hubVars, codexVars, auditVars>>

\* self._notify_executor.submit(cb, req_id, request) for the next listener of
\* the copy; after the last one, self._notify_queue.task_done() and the
\* thread is back at get().
_notify_worker_submit ==
    /\ dispatch.pc = "submit"
    /\ pool' = Append(pool, [cb |-> Head(dispatch.pending), event |-> dispatch.event,
                             state |-> "queued"])
    /\ dispatch' =
          IF Len(dispatch.pending) = 1
          THEN [Waiting(dispatch.taken) EXCEPT
                   !.event = dispatch.event, !.snapshot = dispatch.snapshot]
          ELSE [dispatch EXCEPT !.pending = Tail(dispatch.pending)]
    /\ UNCHANGED <<ledgerVars, last>>
    /\ UNCHANGED <<lockVars, accessVars, hubVars, codexVars, auditVars>>

Running == {i \in 1..Len(pool) : pool[i].state = "running"}

\* A thread of the pool takes the oldest call still in the work queue.
_executor_start(i) ==
    /\ pool[i].state = "queued"
    /\ \A j \in 1..(i - 1) : pool[j].state # "queued"
    /\ Cardinality(Running) < max_workers
    /\ pool' = [pool EXCEPT ![i].state = "running"]
    /\ UNCHANGED <<ledgerVars, dispatch, last>>
    /\ UNCHANGED <<lockVars, accessVars, hubVars, codexVars, auditVars>>

\* The listeners are callables of the caller's: "cb2" is one that raises on
\* every event, the others return.
Raising(cb) == cb = "cb2"

\* cb(req_id, request) returns.
_listener_returns(i) ==
    /\ pool[i].state = "running"
    /\ ~Raising(pool[i].cb)
    /\ pool' = [pool EXCEPT ![i].state = "returned"]
    /\ UNCHANGED <<ledgerVars, dispatch, last>>
    /\ UNCHANGED <<lockVars, accessVars, hubVars, codexVars, auditVars>>

\* A pool in which an exception of one call ends the calls not yet started.
AfterRaiseAbandoning(calls, i) ==
    [j \in 1..Len(calls) |->
        IF j = i THEN [calls[j] EXCEPT !.state = "raised"]
        ELSE IF calls[j].state = "queued" THEN [calls[j] EXCEPT !.state = "abandoned"]
        ELSE calls[j]]

\* concurrent.futures: the exception is kept in the Future of that call,
\* which nobody reads; the thread of the pool goes on to the next call.
AfterRaise(calls, i) == [calls EXCEPT ![i].state = "raised"]

\* cb(req_id, request) raises.
_listener_raises(i) ==
    /\ pool[i].state = "running"
    /\ Raising(pool[i].cb)
    /\ pool' = AfterRaise(pool, i)
    /\ UNCHANGED <<ledgerVars, dispatch, last>>
    /\ UNCHANGED <<lockVars, accessVars, hubVars, codexVars, auditVars>>

\* The ids a caller may pass: those create_request has returned, and an unknown one.
RequestIds == DOMAIN requests \cup {"nope"}

LedgerInit ==
    /\ requests = <<>>
    /\ black_vault = {}
    /\ approval_listeners = <<>>
    /\ notify_queue = <<>>
    /\ db_requests = <<>>
    /\ db_vault = {}
    /\ denied_to_vault = {}
    /\ peer = NoPeer
    /\ dispatch = Waiting(0)
    /\ pool = <<>>

LedgerNext ==
    \/ \E t \in Topics, d \in Descriptions, p \in Priorities : create_request(t, d, p)
    \/ \E id \in RequestIds, r \in Responses : approve_request(id, r)
    \/ \E id \in RequestIds, r \in Reasons, v \in BOOLEAN : deny_request(id, r, v)
    \/ \E cb \in Listeners : register_approval_listener(cb)

-----------------------------------------------------------------------------
(* _atomic_write_json: N writers of one path.  Every step is one system     *)
(* call on the lock file, the temporary file or the target.  A writer holds *)
(* the lock for less than stale_after, so the only lock that can be judged  *)
(* stale is one abandoned by a process that died holding it.                *)

\* A file that does not exist, and one that exists and holds nothing yet.
Absent == <<"absent", 0>>
Empty == <<"empty", 0>>

Writers == 1..NumWriters
\* Writers are threads of one process or processes of their own.
Pids == 1..NumWriters
\* The process that left a lock file behind.
DeadPid == 0
\* A running process that is none of the writers.
ForeignPid == NumWriters + 1

\* The lock file: missing; created by os.open(O_CREAT | O_EXCL) and not written
\* yet (fewer than two lines); or holding "pid\nts\n", where stale tells
\* whether time.time() - ts exceeds stale_after.
NoLock == [state |-> "absent", pid |-> DeadPid, stale |-> FALSE]
EmptyLock == [state |-> "empty", pid |-> DeadPid, stale |-> FALSE]
WrittenLock(pid, stale) == [state |-> "written", pid |-> pid, stale |-> stale]
NoInfo == [state |-> "none", pid |-> DeadPid, stale |-> FALSE]
\* A lock file of one line, "held", which no writer wrote and none can parse.
GarbageLock == [state |-> "garbage", pid |-> DeadPid, stale |-> FALSE]
\* The lock files that stay: unparsable, or fresh and owned by a process
\* that runs and does not release.
HeldLocks == {GarbageLock, WrittenLock(ForeignPid, FALSE)}

\* What writer w serialises: json.dump writes it in pieces.
Payload(w) == <<"payload", w>>
Partial(w) == <<"partial", w>>

\* _is_process_alive(pid): every writer's process runs; DeadPid does not.
_is_process_alive(pid) == pid # DeadPid

\* _read_lockfile(lockfile): (pid, ts) when the file holds two lines, else None.
_read_lockfile(f) == IF f.state = "written" THEN f ELSE NoInfo

\* age > stale_after or not _is_process_alive(pid)
IsStale(i) == i.stale \/ ~_is_process_alive(i.pid)

\* A test that takes every readable lock for abandoned.
ReclaimAnyLock(i) == TRUE

\* The test that sends _acquire_lock to os.remove(lock_path).
ShouldReclaim(i) == IsStale(i)

Goto(w, label) == pc' = [pc EXCEPT ![w] = label]

\* fd = os.open(lock_path, O_CREAT | O_EXCL | O_WRONLY); os.close(fd)
_acquire_lock_create(w) ==
    /\ pc[w] = "create"
    /\ UNCHANGED outsideLock
    /\ IF lock_file = NoLock
       THEN /\ lock_file' = EmptyLock
            /\ Goto(w, "write_lockfile_open")
       ELSE /\ Goto(w, "inspect")      \* FileExistsError
            /\ UNCHANGED lock_file
    /\ UNCHANGED <<target_file, tmp_file, info, pid_of>>

\* _write_lockfile: open(lockfile, "w") creates or truncates the file ...
_write_lockfile_open(w) ==
    /\ pc[w] = "write_lockfile_open"
    /\ UNCHANGED outsideLock
    /\ lock_file' = EmptyLock
    /\ Goto(w, "write_lockfile_write")
    /\ UNCHANGED <<target_file, tmp_file, info, pid_of>>

\* ... and f.write(f"{pid}\n{ts}\n") fills it; _acquire_lock returns True.
_write_lockfile_write(w) ==
    /\ pc[w] = "write_lockfile_write"
    /\ UNCHANGED outsideLock
    /\ lock_file' = WrittenLock(pid_of[w], FALSE)
    /\ Goto(w, "mkstemp")
    /\ UNCHANGED <<target_file, tmp_file, info, pid_of>>

\* except FileExistsError: info = _read_lockfile(lock_path), then the
\* staleness test on what was read.
_acquire_lock_inspect(w) ==
    /\ pc[w] = "inspect"
    /\ UNCHANGED outsideLock
    /\ info' = [info EXCEPT ![w] = _read_lockfile(lock_file)]
    /\ IF info'[w] # NoInfo /\ ShouldReclaim(info'[w])
       THEN Goto(w, "remove_stale")
       ELSE Goto(w, "poll")
    /\ UNCHANGED <<lock_file, target_file, tmp_file, pid_of>>

\* os.remove(lock_path); continue -- or, when the file is gone, the
\* exception is logged and the loop goes on to the timeout test.
_acquire_lock_remove_stale(w) ==
    /\ pc[w] = "remove_stale"
    /\ UNCHANGED outsideLock
    /\ IF lock_file # NoLock
       THEN /\ lock_file' = NoLock
            /\ Goto(w, "create")
       ELSE /\ Goto(w, "poll")
            /\ UNCHANGED lock_file
    /\ UNCHANGED <<target_file, tmp_file, info, pid_of>>

\* if (time.time() - start) >= timeout: return False -- and
\* _atomic_write_json raises RuntimeError; else time.sleep(poll) and retry.
_acquire_lock_poll(w) ==
    /\ pc[w] = "poll"
    /\ UNCHANGED outsideLock
    /\ \/ Goto(w, "create")
       \/ Goto(w, "timed_out")
    /\ UNCHANGED <<lock_file, target_file, tmp_file, info, pid_of>>

\* fd, tmp_path = tempfile.mkstemp(dir=dirpath, prefix=".tmp", suffix=".json")
_atomic_write_json_mkstemp(w) ==
    /\ pc[w] = "mkstemp"
    /\ UNCHANGED outsideLock
    /\ tmp_file' = [tmp_file EXCEPT ![w] = Empty]
    /\ Goto(w, "dump")
    /\ UNCHANGED <<lock_file, target_file, info, pid_of>>

\* json.dump(obj, f, ...): the text reaches the temporary file in pieces
_atomic_write_json_dump(w) ==
    /\ pc[w] = "dump"
    /\ UNCHANGED outsideLock
    /\ tmp_file' = [tmp_file EXCEPT ![w] = Partial(w)]
    /\ Goto(w, "fsync")
    /\ UNCHANGED <<lock_file, target_file, info, pid_of>>

\* f.flush(); os.fsync(f.fileno()); the file is closed
_atomic_write_json_fsync(w) ==
    /\ pc[w] = "fsync"
    /\ UNCHANGED outsideLock
    /\ tmp_file' = [tmp_file EXCEPT ![w] = Payload(w)]
    /\ Goto(w, "replace")
    /\ UNCHANGED <<lock_file, target_file, info, pid_of>>

\* A writer that writes the target in place instead of renaming over it.
WriteInPlace(w) ==
    /\ target_file' = Partial(w)
    /\ UNCHANGED tmp_file

\* os.replace(tmp_path, file_path)
Replace(w) ==
    /\ target_file' = tmp_file[w]
    /\ tmp_file' = [tmp_file EXCEPT ![w] = Absent]

_atomic_write_json_replace(w) ==
    /\ pc[w] = "replace"
    /\ UNCHANGED outsideLock
    /\ Replace(w)
    /\ Goto(w, "release_read")
    /\ UNCHANGED <<lock_file, info, pid_of>>

\* finally: _release_lock(lockfile): info = _read_lockfile(lock_path)
_release_lock_read(w) ==
    /\ pc[w] = "release_read"
    /\ UNCHANGED outsideLock
    /\ info' = [info EXCEPT ![w] = _read_lockfile(lock_file)]
    /\ Goto(w, "release_remove")
    /\ UNCHANGED <<lock_file, target_file, tmp_file, pid_of>>

\* if info: remove the file when pid == os.getpid() and it exists;
\* elif os.path.exists(lock_path): remove it.
_release_lock_remove(w) ==
    /\ pc[w] = "release_remove"
    /\ UNCHANGED outsideLock
    /\ lock_file' = IF info[w] # NoInfo /\ info[w].pid # pid_of[w]
                    THEN lock_file
                    ELSE NoLock
    /\ Goto(w, "done")
    /\ UNCHANGED <<target_file, tmp_file, info, pid_of>>

\* Between _acquire_lock returning True and _release_lock returning.
HoldsLock(w) ==
    pc[w] \in {"mkstemp", "dump", "fsync", "replace", "release_read", "release_remove"}

Finished(w) == pc[w] \in {"done", "timed_out"}

LockInit ==
    /\ lock_file \in {NoLock, WrittenLock(DeadPid, FALSE), WrittenLock(DeadPid, TRUE)}
    /\ target_file = Absent
    /\ tmp_file = [w \in Writers |-> Absent]
    /\ pc = [w \in Writers |-> "create"]
    /\ info = [w \in Writers |-> NoInfo]
    /\ pid_of \in [Writers -> Pids]

\* The writers of a path whose lock file may be held for good, and whose
\* target may hold what the holder wrote before.
HeldInit ==
    /\ lock_file \in {NoLock, WrittenLock(DeadPid, FALSE)} \cup HeldLocks
    /\ target_file \in {Absent, Payload(ForeignPid)}
    /\ tmp_file = [w \in Writers |-> Absent]
    /\ pc = [w \in Writers |-> "create"]
    /\ info = [w \in Writers |-> NoInfo]
    /\ pid_of = [w \in Writers |-> w]

\* The caller whose write raised RuntimeError calls _atomic_write_json again.
_atomic_write_json_again(w) ==
    /\ pc[w] = "timed_out"
    /\ UNCHANGED outsideLock
    /\ Goto(w, "create")
    /\ UNCHANGED <<lock_file, target_file, tmp_file, info, pid_of>>

\* The lock file a holder leaves when its process ends during the hold:
\* empty when it ended between os.open and the write of _write_lockfile,
\* else "pid\nts\n" of a pid that no longer runs; and the lock file of a
\* process that still runs, older than stale_after.
AbandonedLocks ==
    {EmptyLock, WrittenLock(DeadPid, FALSE), WrittenLock(DeadPid, TRUE),
     WrittenLock(ForeignPid, TRUE)}

AbandonedInit ==
    /\ lock_file \in AbandonedLocks
    /\ target_file \in {Absent, Payload(ForeignPid)}
    /\ tmp_file = [w \in Writers |-> Absent]
    /\ pc = [w \in Writers |-> "create"]
    /\ info = [w \in Writers |-> NoInfo]
    /\ pid_of \in [Writers -> Pids]

\* The writers at rest, for the specifications of the other components.
LockIdle ==
    /\ lock_file = NoLock
    /\ target_file = Absent
    /\ tmp_file = [w \in Writers |-> Absent]
    /\ pc = [w \in Writers |-> "done"]
    /\ info = [w \in Writers |-> NoInfo]
    /\ pid_of = [w \in Writers |-> w]

-----------------------------------------------------------------------------
(* AccessControlManager *)

Users == {"system", "alice"}
Roles == {"integrator", "expert"}

\* role in roles, for a list of roles
InList(role, roles) == \E i \in 1..Len(roles) : roles[i] = role

\* roles.remove(role): the first occurrence goes, later ones stay
RECURSIVE Removed(_, _)
Removed(roles, role) ==
    IF roles = <<>> THEN <<>>
    ELSE IF Head(roles) = role THEN Tail(roles)
    ELSE <<Head(roles)>> \o Removed(Tail(roles), role)

\* self._users.get(user, [])
RolesOf(user) == IF user \in DOMAIN users THEN users[user] ELSE <<>>

\* role in self._users.get(user, [])
has_role(user, role) == InList(role, RolesOf(user))

\* data/access_control.json: no file, a file json.load cannot read, or the
\* table json.dump wrote.
NoStorage == [state |-> "absent", table |-> <<>>]
CorruptStorage == [state |-> "corrupt", table |-> <<>>]
Stored(table) == [state |-> "table", table |-> table]

\* _load(): the table of the file; {} when there is no file or it cannot be read
_load(storage) == IF storage.state = "table" THEN storage.table ELSE <<>>

\* A bootstrap that grants the default roles to system whatever was stored.
WithSystemRegranted(table) == Put(table, "system", <<"integrator", "expert">>)

\* if "system" not in self._users: self._users["system"] = ["integrator", "expert"]
WithSystem(table) ==
    IF "system" \in DOMAIN table THEN table
    ELSE Put(table, "system", <<"integrator", "expert">>)

\* get_access_control() when _manager is None: AccessControlManager()
\* loads the table, adds system when it is not there and then saves.
get_access_control ==
    /\ ~manager
    /\ manager' = TRUE
    /\ users' = WithSystem(_load(ac_storage))
    /\ ac_storage' = IF "system" \in DOMAIN _load(ac_storage) THEN ac_storage
                     ELSE Stored(users')
    /\ last' = Call("get_access_control", <<>>, None)
    /\ UNCHANGED outsideAccess

\* The process ends: the manager and its table are gone, the file stays.
exit_process ==
    /\ manager
    /\ manager' = FALSE
    /\ users' = <<>>
    /\ last' = Call("exit_process", <<>>, None)
    /\ UNCHANGED ac_storage
    /\ UNCHANGED outsideAccess

\* add_user(user, roles): self._users[user] = roles or []; self._save()
add_user(user, roles) ==
    /\ manager
    /\ users' = Put(users, user, roles)
    /\ ac_storage' = Stored(users')
    /\ last' = Call("add_user", <<user, roles>>, None)
    /\ UNCHANGED manager
    /\ UNCHANGED outsideAccess

\* self._users.setdefault(user, []); append the role unless it is there,
\* and save when it was appended
grant_role(user, role) ==
    /\ manager
    /\ users' = Put(users, user,
                    IF InList(role, RolesOf(user)) THEN RolesOf(user)
                    ELSE Append(RolesOf(user), role))
    /\ ac_storage' = IF InList(role, RolesOf(user)) THEN ac_storage
                     ELSE Stored(users')
    /\ last' = Call("grant_role", <<user, role>>, None)
    /\ UNCHANGED manager
    /\ UNCHANGED outsideAccess

\* remove the role and save when the user is known and holds it
revoke_role(user, role) ==
    /\ manager
    /\ users' = IF user \in DOMAIN users
                THEN [users EXCEPT ![user] = Removed(@, role)]
                ELSE users
    /\ ac_storage' = IF InList(role, RolesOf(user)) THEN Stored(users')
                     ELSE ac_storage
    /\ last' = Call("revoke_role", <<user, role>>, None)
    /\ UNCHANGED manager
    /\ UNCHANGED outsideAccess

\* The manager constructed with no storage file: the default system user is
\* created and saved.
AccessInit ==
    /\ users = [u \in {"system"} |-> <<"integrator", "expert">>]
    /\ ac_storage = Stored(users)
    /\ manager = TRUE

-----------------------------------------------------------------------------
(* CouncilHub: what the quality gate of Codex reads *)

\* What route_message can see of an agent object: whether it has a
\* receive_message and a deactivate method, and whether a call of it returns
\* or raises.
NoMethod == "absent"
Object(receive_message, deactivate) ==
    [receive_message |-> receive_message, deactivate |-> deactivate]
Objects == {Object(r, d) : r \in {NoMethod, "returns", "raises"},
                           d \in {NoMethod, "returns"}}
                \cup {Object("returns", "raises")}

\* The optional agents register_project creates.  KnowledgeCurator and
\* CICheckerAgent define receive_message (CICheckerAgent acts on the message
\* "run" only); no agent defines deactivate.
ProjectAgents ==
    {"curator", "qa_generator", "dependency_auditor", "docgen", "refactor",
     "sandbox", "retrieval", "rollback_agent", "planner", "telemetry", "ci_checker"}
ProjectAgent(k) ==
    IF k \in {"curator", "ci_checker"} THEN Object("returns", NoMethod)
    ELSE Object(NoMethod, NoMethod)

\* self._agents[agent_id] = {"obj": agent_obj, "active": True}
Registered(registry, agent_id, agent_obj) ==
    Put(registry, agent_id, [obj |-> agent_obj, active |-> TRUE])

\* register_project: sets _project, enables every optional agent and
\* registers each of them for routing
register_project ==
    /\ hub_project' = TRUE
    /\ agents_enabled' = TRUE
    /\ agents' = [k \in DOMAIN agents \cup ProjectAgents |->
                     IF k \in ProjectAgents
                     THEN [obj |-> ProjectAgent(k), active |-> TRUE]
                     ELSE agents[k]]
    /\ last' = Call("register_project", <<>>, None)
    /\ UNCHANGED <<invoked, cerberus_result>>
    /\ UNCHANGED hubLoop
    /\ UNCHANGED outsideHub

\* Dashboard toggle_agents: flips qa_generator and dependency_auditor together
toggle_agents ==
    /\ agents_enabled' = ~agents_enabled
    /\ last' = Call("toggle_agents", <<>>, None)
    /\ UNCHANGED hub_project
    /\ UNCHANGED <<hubRouting, hubLoop>>
    /\ UNCHANGED outsideHub

\* register_agent(agent_id, agent_obj)
register_agent(agent_id, agent_obj) ==
    /\ agents' = Registered(agents, agent_id, agent_obj)
    /\ last' = Call("register_agent", <<agent_id>>, None)
    /\ UNCHANGED <<invoked, cerberus_result>>
    /\ UNCHANGED <<hubGate, hubLoop>>
    /\ UNCHANGED outsideHub

\* unregister_agent(agent_id)
unregister_agent(agent_id) ==
    /\ agents' = [k \in DOMAIN agents \ {agent_id} |-> agents[k]]
    /\ last' = Call("unregister_agent", <<agent_id>>, None)
    /\ UNCHANGED <<invoked, cerberus_result>>
    /\ UNCHANGED <<hubGate, hubLoop>>
    /\ UNCHANGED outsideHub

\* What the import of cerberus.hub and HubCoordinator().analyze(content) may
\* do: fail, or return a result whose "is_safe" is true, false or missing.
Analyses == {"unavailable", "safe", "unsafe", "no_verdict"}

\* _consult_cerberus(content): res.get("is_safe", True), and safe when
\* Cerberus cannot be consulted
_consult_cerberus(analysis) ==
    [is_safe |-> analysis # "unsafe",
     details |-> IF analysis = "unavailable" THEN None ELSE analysis]

\* A hub that leaves the sender of an unsafe message as it is.
LeaveConnected(agent_id) == [agents |-> agents, invoked |-> <<>>]

\* _cut_communication(agent_id): the registry and the calls made on the
\* agent object; what deactivate raises is logged and dropped
_cut_communication(agent_id) ==
    IF agent_id \in DOMAIN agents
    THEN [agents |-> [agents EXCEPT ![agent_id].active = FALSE],
          invoked |-> IF agents[agent_id].obj.deactivate # NoMethod
                      THEN <<<<agent_id, "deactivate">>>>
                      ELSE <<>>]
    ELSE [agents |-> agents, invoked |-> <<>>]

\* self.project_shorthand
PA == "PA"

\* The recipient route_message finds: the project dict, which has no
\* receive_message, the object of a registered agent, or None.
NoRecipient == Object("none", "none")
Recipient(to_id) ==
    IF to_id = PA /\ hub_project THEN Object(NoMethod, NoMethod)
    ELSE IF to_id \in DOMAIN agents THEN agents[to_id].obj
    ELSE NoRecipient

\* A delivery that reports delivered whatever receive_message did.
DeliveryHidingError(to_id, recipient) ==
    [invoked |-> IF recipient.receive_message = NoMethod THEN <<>>
                 ELSE <<<<to_id, "receive_message">>>>,
     ret |-> [delivered |-> TRUE]]

\* try: if hasattr(recipient, "receive_message"): recipient.receive_message(..)
\* return {"delivered": True}; except Exception as e: return {"delivered":
\* False, "error": str(e)}
Delivery(to_id, recipient) ==
    IF recipient.receive_message = NoMethod
    THEN [invoked |-> <<>>, ret |-> [delivered |-> TRUE]]
    ELSE [invoked |-> <<<<to_id, "receive_message">>>>,
          ret |-> IF recipient.receive_message = "raises"
                  THEN [delivered |-> FALSE, error |-> "Exception"]
                  ELSE [delivered |-> TRUE]]

\* route_message(from_id, to_id, message), with what Cerberus does when it
\* is consulted
route_message(from_id, to_id, message, analysis) ==
    LET call(ret) == Call("route_message", <<from_id, to_id, message>>, ret)
        result == _consult_cerberus(analysis)
        cut == _cut_communication(from_id)
        recipient == Recipient(to_id)
    IN  /\ cerberus_result' = result
        /\ IF ~result.is_safe
           THEN /\ agents' = cut.agents
                /\ invoked' = cut.invoked
                /\ last' = call([delivered |-> FALSE, reason |-> "unsafe",
                                 cerberus |-> result])
           ELSE /\ agents' = agents
                /\ IF recipient = NoRecipient
                   THEN /\ invoked' = <<>>
                        /\ last' = call([delivered |-> FALSE,
                                         reason |-> "unknown_recipient"])
                   ELSE /\ invoked' = Delivery(to_id, recipient).invoked
                        /\ last' = call(Delivery(to_id, recipient).ret)
        /\ UNCHANGED <<hubGate, hubLoop>>
        /\ UNCHANGED outsideHub

\* The .txt files that may be dropped into data/autolearn.
AutolearnFiles == {"code_x.txt", "notes.txt"}

\* A file appears in data/autolearn.
drop_file(fn) ==
    /\ inbox' = inbox \cup {fn}
    /\ last' = Call("drop_file", <<fn>>, None)
    /\ UNCHANGED <<autolearn_stop, loop_pc>>
    /\ UNCHANGED <<hubGate, hubRouting>>
    /\ UNCHANGED outsideHub

\* Whether self._autolearn_thread is set, and whether it is_alive().
ThreadSet == loop_pc # "none"
ThreadAlive == loop_pc \in {"test", "once", "wait"}

\* start_autonomous_learning(): nothing while the thread is alive; otherwise
\* the event is cleared and a new thread starts at the loop test
start_autonomous_learning ==
    /\ IF ThreadAlive
       THEN UNCHANGED <<autolearn_stop, loop_pc>>
       ELSE /\ autolearn_stop' = FALSE
            /\ loop_pc' = "test"
    /\ last' = Call("start_autonomous_learning", <<>>, None)
    /\ UNCHANGED inbox
    /\ UNCHANGED <<hubGate, hubRouting>>
    /\ UNCHANGED outsideHub

\* stop_autonomous_learning(): sets the event when a thread was ever started;
\* join(timeout=2.0) waits and changes nothing
stop_autonomous_learning ==
    /\ autolearn_stop' = IF ThreadSet THEN TRUE ELSE autolearn_stop
    /\ last' = Call("stop_autonomous_learning", <<>>, None)
    /\ UNCHANGED <<loop_pc, inbox>>
    /\ UNCHANGED <<hubGate, hubRouting>>
    /\ UNCHANGED outsideHub

\* A loop that never reads the event: while True.
LoopForever ==
    /\ loop_pc = "test"
    /\ loop_pc' = "once"
    /\ last' = Call("_autolearn_loop", <<"test">>, "enter")
    /\ UNCHANGED <<autolearn_stop, inbox>>
    /\ UNCHANGED <<hubGate, hubRouting>>
    /\ UNCHANGED outsideHub

\* while not self._autolearn_stop.is_set(): the thread ends when the event
\* is set and begins an iteration otherwise
_autolearn_loop_test ==
    /\ loop_pc = "test"
    /\ loop_pc' = IF autolearn_stop THEN "done" ELSE "once"
    /\ last' = Call("_autolearn_loop", <<"test">>,
                    IF autolearn_stop THEN "exit" ELSE "enter")
    /\ UNCHANGED <<autolearn_stop, inbox>>
    /\ UNCHANGED <<hubGate, hubRouting>>
    /\ UNCHANGED outsideHub

\* try: self._autolearn_once() except Exception: log.  With a project
\* registered the iteration renames each file it absorbed to .consumed; a
\* file whose absorption raised stays, and so does every file when the
\* iteration itself raises.
_autolearn_once(outcome) ==
    /\ loop_pc = "once"
    /\ loop_pc' = "wait"
    /\ IF outcome = "raises" \/ ~hub_project
       THEN inbox' = inbox
       ELSE inbox' \in SUBSET inbox
    /\ last' = Call("_autolearn_loop", <<"_autolearn_once">>, outcome)
    /\ UNCHANGED autolearn_stop
    /\ UNCHANGED <<hubGate, hubRouting>>
    /\ UNCHANGED outsideHub

\* self._autolearn_stop.wait(self._autolearn_interval): returns at once when
\* the event is set, and when the interval has passed otherwise
_autolearn_wait ==
    /\ loop_pc = "wait"
    /\ loop_pc' = "test"
    /\ last' = Call("_autolearn_loop", <<"wait">>,
                    IF autolearn_stop THEN "woken" ELSE "timed_out")
    /\ UNCHANGED <<autolearn_stop, inbox>>
    /\ UNCHANGED <<hubGate, hubRouting>>
    /\ UNCHANGED outsideHub

\* CouncilHub.__init__: _project is None, _agents is {}, _agents_enabled is
\* {} and every enabled.get(name, True) is True, no thread, the event clear.
HubInit ==
    /\ hub_project = FALSE
    /\ agents_enabled = TRUE
    /\ agents = <<>>
    /\ invoked = <<>>
    /\ cerberus_result = _consult_cerberus("unavailable")
    /\ autolearn_stop = FALSE
    /\ loop_pc = "none"
    /\ inbox = {}

-----------------------------------------------------------------------------
(* CodexDeusMaximus: integration, rollback, staging and the quality gate *)

\* The stems of the .py files in generated_dir; "gen" is a prefix of "gen2".
Stems == {"gen", "gen2"}
ProperPrefix == {<<"gen", "gen2">>}

\* text.startswith(prefix)
StartsWith(text, prefix) == text = prefix \/ <<prefix, text>> \in ProperPrefix

TargetPaths == {"src/app/main.py", "lib.py"}
\* target_modules or ["src/app/main.py"]
DefaultTargets(target_modules) ==
    IF target_modules = <<>> THEN <<"src/app/main.py">> ELSE target_modules

\* A file that does not exist.  A target that exists holds its original text,
\* which imports no generated module, followed by one
\* "\n# Integrated generated module\nfrom app.generated import <stem>\n"
\* per appended import.
NoFile == [exists |-> FALSE, imports |-> <<>>]
Original == [exists |-> TRUE, imports |-> <<>>]

\* An integration that does not look for the line before it appends it.
NeverImported(file, mod_name) == FALSE

\* import_line.strip() in content: a substring test, so the line of a module
\* whose name begins with mod_name also matches.
Imported(file, mod_name) ==
    \E i \in 1..Len(file.imports) : StartsWith(file.imports[i], mod_name)

\* bak = tgt + ".codexbak"
Bak(tgt) == <<tgt, ".codexbak">>

\* The orders in which os.listdir or os.walk may list the files of S.
Orders(S) ==
    {f \in [1..Cardinality(S) -> S] : \A i, j \in DOMAIN f : i # j => f[i] # f[j]}

\* for gen in generated_files: for tgt in targets
Pairs(gens, tgts) ==
    [k \in 1..(Len(gens) * Len(tgts)) |->
        <<gens[((k - 1) \div Len(tgts)) + 1], tgts[((k - 1) % Len(tgts)) + 1]>>]

\* The body of the inner loop of _perform_integration for one (module, target).
IntegrateOne(st, mod_name, tgt) ==
    IF ~st.t[tgt].exists
    THEN [st EXCEPT !.skipped =
             Append(@, [target |-> tgt, module |-> None, reason |-> "missing"])]
    ELSE IF Imported(st.t[tgt], mod_name)
    THEN [st EXCEPT !.skipped =
             Append(@, [target |-> tgt, module |-> mod_name,
                        reason |-> "already_imported"])]
    ELSE IF tgt \in read_only
    THEN [st EXCEPT !.b[tgt] = st.t[tgt],
                    !.errors =
                       Append(@, [target |-> tgt, module |-> mod_name,
                                  error |-> "PermissionError"])]
    ELSE [st EXCEPT !.b[tgt] = st.t[tgt],
                    !.t[tgt].imports = Append(@, mod_name),
                    !.integrated =
                       Append(@, [target |-> tgt, module |-> mod_name,
                                  backup |-> Bak(tgt)])]

RECURSIVE IntegrateAll(_, _)
IntegrateAll(st, pairs) ==
    IF pairs = <<>> THEN st
    ELSE IntegrateAll(IntegrateOne(st, Head(pairs)[1], Head(pairs)[2]), Tail(pairs))

\* _perform_integration(targets), with the files of generated_dir listed in
\* the given order: the files it leaves and the report it returns.
_perform_integration(order, tgts) ==
    LET st == IntegrateAll([t |-> targets, b |-> backups, integrated |-> <<>>,
                            skipped |-> <<>>, errors |-> <<>>],
                           Pairs(order, tgts))
    IN  [t |-> st.t, b |-> st.b,
         ret |-> [success |-> TRUE,
                  report |-> [integrated |-> st.integrated, skipped |-> st.skipped,
                              errors |-> st.errors]]]

\* os.chmod(tgt, 0o444) by the owner of the project: from now on the append
\* to tgt fails, after the backup was written.
protect(tgt) ==
    /\ targets[tgt].exists
    /\ read_only' = read_only \cup {tgt}
    /\ last' = Call("chmod", <<tgt>>, None)
    /\ UNCHANGED <<allow_integration, learning_manager, current_style, seen,
                   generated, archives, targets, backups, staged, held_report,
                   failed_checks, audited, before>>
    /\ UNCHANGED <<accessVars, hubVars>>
    /\ UNCHANGED outsideCodex

\* An access test that reads the configuration and forgets the role.
AllowedByConfigurationAlone == allow_integration

\* An access test that reads the role and forgets the configuration.
AllowedByRoleAlone == has_role("system", "integrator")

\* not (not self.allow_integration or not ac.has_role("system", "integrator"))
IntegrationAllowed == allow_integration /\ has_role("system", "integrator")

\* What integrate_across_project(target_modules) does and returns.
IntegrateAcrossProject(order, target_modules) ==
    IF ~IntegrationAllowed
    THEN [t |-> targets, b |-> backups,
          ret |-> [success |-> FALSE, reason |-> "integration_not_allowed"]]
    ELSE _perform_integration(order, DefaultTargets(target_modules))

\* The files as a call leaves them, the report the caller now holds and the
\* files as they were when the call began.
Leave(result) ==
    /\ targets' = result.t
    /\ backups' = result.b
    /\ held_report' = result.ret
    /\ before' = [targets |-> targets, backups |-> backups]

integrate_across_project(target_modules) ==
    \E order \in Orders(DOMAIN generated) :
       LET result == IntegrateAcrossProject(order, target_modules)
       IN  /\ Leave(result)
           /\ last' = Call("integrate_across_project", <<target_modules>>, result.ret)
           /\ UNCHANGED <<allow_integration, read_only, learning_manager, current_style, seen,
                          generated, archives, staged, failed_checks>>
           /\ audited' = {}
           /\ UNCHANGED <<accessVars, hubVars>>
           /\ UNCHANGED outsideCodex

\* detail.get("returncode") of a result that carries no return code
NoCode == -1

\* What dep.analyze_new_module and qa.generate_test_for_module may do: return
\* success, return a failure, or (a replaced collaborator) raise.
DepOutcomes == {"ok", "fail", "raise"}
QaGenOutcomes == {"ok", "fail", "raise"}

\* The texts run_tests may return as "output".
Outputs == {"", "no tests ran in 0.01s", "NO TESTS RAN", "1 failed in 0.02s"}
\* "no tests ran" in out.lower()
SaysNoTestsRan(out) == out \in {"no tests ran in 0.01s", "NO TESTS RAN"}

\* What qa.run_tests may do: {"success": rc == 0, "output", "returncode"},
\* {"success": True, "ran": 0}, {"success": False, "error"}, or raise.
QaRunOutcomes ==
    {[kind |-> "ok", returncode |-> 0, output |-> ""],
     [kind |-> "error", returncode |-> NoCode, output |-> ""],
     [kind |-> "raise", returncode |-> NoCode, output |-> ""]}
    \cup [kind : {"rc"}, returncode : {1, 5}, output : Outputs]

GateOutcomes == [dep : DepOutcomes, qa_gen : QaGenOutcomes, qa_run : QaRunOutcomes]

Failure(path, stage, rc, out) ==
    [module |-> path, stage |-> stage, returncode |-> rc, output |-> out]

\* The dependency audit of one file: what it appends to failed_checks.
DependencyChecks(path, o) ==
    IF ~agents_enabled \/ o.dep = "ok" THEN <<>>
    ELSE IF o.dep = "fail" THEN <<Failure(path, "dependency", NoCode, "")>>
    ELSE <<Failure(path, "dependency_exception", NoCode, "")>>

\* QA generation and run of one file: what they append to failed_checks.
QaChecks(path, o) ==
    IF ~agents_enabled THEN <<>>
    ELSE IF o.qa_gen = "fail" THEN <<Failure(path, "qa_generate", NoCode, "")>>
    ELSE IF o.qa_gen = "raise" \/ o.qa_run.kind = "raise"
    THEN <<Failure(path, "qa_exception", NoCode, "")>>
    ELSE IF o.qa_run.kind = "ok" THEN <<>>
    ELSE <<Failure(path, "qa_run", o.qa_run.returncode, o.qa_run.output)>>

\* The loop over os.walk(generated_dir): failed_checks
RECURSIVE FailedChecks(_, _)
FailedChecks(walk, outcome) ==
    IF walk = <<>> THEN <<>>
    ELSE DependencyChecks(Head(walk), outcome[Head(walk)])
         \o QaChecks(Head(walk), outcome[Head(walk)])
         \o FailedChecks(Tail(walk), outcome)

\* The files on which dep.analyze_new_module returned and the generated test
\* was run: none when the two agents are disabled.
Audited(walk, outcome) ==
    IF ~agents_enabled THEN {}
    ELSE {walk[i] : i \in {j \in DOMAIN walk :
                              /\ outcome[walk[j]].dep # "raise"
                              /\ outcome[walk[j]].qa_gen = "ok"
                              /\ outcome[walk[j]].qa_run.kind # "raise"}}

\* A filter that takes every failed test run for the benign one.
BenignAnyQaRun(f) == f.stage = "qa_run"

\* stage == "qa_run" and rc == 5 and "no tests ran" in out.lower()
Benign(f) ==
    /\ f.stage = "qa_run"
    /\ f.returncode = 5
    /\ SaysNoTestsRan(f.output)

NotBenign(f) == ~Benign(f)
Filtered(checks) == SelectSeq(checks, NotBenign)

\* The .py files os.walk(generated_dir) finds: the modules and their archives.
GateFiles == DOMAIN generated \cup archives

\* What the collaborators may answer for the files, and the order of the walk:
\* nothing is asked unless a project is registered.
GateRuns ==
    IF hub_project
    THEN Orders(GateFiles) \X [GateFiles -> GateOutcomes]
    ELSE {<<<<>>, <<>>>>}

integrate_approved(target_modules) ==
    \E order \in Orders(DOMAIN generated), run \in GateRuns :
       LET checks == FailedChecks(run[1], run[2])
           filtered == Filtered(checks)
           result ==
              IF filtered # <<>>
              THEN [t |-> targets, b |-> backups,
                    ret |-> [success |-> FALSE, blocked |-> TRUE,
                             failures |-> filtered]]
              ELSE _perform_integration(order, DefaultTargets(target_modules))
       IN  /\ failed_checks' = checks
           /\ audited' = Audited(run[1], run[2])
           /\ Leave(result)
           /\ last' = Call("integrate_approved", <<target_modules>>, result.ret)
           /\ UNCHANGED <<allow_integration, read_only, learning_manager, current_style, seen,
                          generated, archives, staged>>
           /\ UNCHANGED <<accessVars, hubVars>>
           /\ UNCHANGED outsideCodex

\* report.get("report", {}).get("integrated", [])
Integrated(report) ==
    IF "report" \in DOMAIN report THEN report.report.integrated ELSE <<>>

\* The body of the loop of rollback_integrations for one entry.
RestoreOne(st, entry) ==
    IF st.b[entry.target].exists
    THEN [st EXCEPT !.t[entry.target] = st.b[entry.target],
                    !.b[entry.target] = NoFile,
                    !.restored = Append(@, [target |-> entry.target,
                                            module |-> entry.module])]
    ELSE [st EXCEPT !.errors = Append(@, [target |-> entry.target,
                                          module |-> entry.module,
                                          error |-> "backup_missing"])]

\* A rollback that gives up at the first entry whose backup is missing.
RECURSIVE RestoreUntilMissing(_, _)
RestoreUntilMissing(st, entries) ==
    IF entries = <<>> THEN st
    ELSE IF ~st.b[Head(entries).target].exists THEN RestoreOne(st, Head(entries))
    ELSE RestoreUntilMissing(RestoreOne(st, Head(entries)), Tail(entries))

RECURSIVE RestoreAll(_, _)
RestoreAll(st, entries) ==
    IF entries = <<>> THEN st
    ELSE RestoreAll(RestoreOne(st, Head(entries)), Tail(entries))

\* The caller holds no report before the first integration returns.
NoReport == [success |-> FALSE, reason |-> None]

rollback_integrations(report) ==
    LET st == RestoreAll([t |-> targets, b |-> backups, restored |-> <<>>,
                          errors |-> <<>>], Integrated(report))
    IN  /\ targets' = st.t
        /\ backups' = st.b
        /\ last' = Call("rollback_integrations", <<report>>,
                        [restored |-> st.restored, errors |-> st.errors])
        /\ UNCHANGED <<allow_integration, read_only, learning_manager, current_style, seen,
                       generated, archives, staged, held_report,
                       failed_checks, audited, before>>
        /\ UNCHANGED <<accessVars, hubVars>>
        /\ UNCHANGED outsideCodex

\* The requests staged and the archived paths their callers pass.
StageIds == {"r1"}
ArchivePaths == {"docs/0_gen.py", "docs/0_lost.py"}

\* waiting_room/staged/{ts}_{_safe_filename(req_id)}.json
StagedPath(ts, req_id) == <<"staged", ts, req_id>>
StagedPaths == {StagedPath(ts, id) : ts \in Timestamps, id \in StageIds \cup {"r0"}}

stage_artifact(req_id, archived_path, topic, description) ==
    \E ts \in Timestamps :
       LET staged_path == StagedPath(ts, req_id)
           metadata == [ts |-> ts, req_id |-> req_id, topic |-> topic,
                        description |-> description, archived |-> archived_path,
                        activated |-> FALSE]
       IN  /\ staged' = Put(staged, staged_path, metadata)
           /\ last' = Call("stage_artifact",
                           <<req_id, archived_path, topic, description>>,
                           [success |-> TRUE, staged |-> staged_path])
           /\ UNCHANGED <<allow_integration, read_only, learning_manager, current_style, seen,
                          generated, archives, targets, backups, held_report,
                          failed_checks, audited, before>>
           /\ UNCHANGED <<accessVars, hubVars>>
           /\ UNCHANGED outsideCodex

\* Every return of activate_staged that leaves the files as they are.
Refuse(staged_path, requester, error) ==
    /\ last' = Call("activate_staged", <<staged_path, requester>>,
                    [success |-> FALSE, error |-> error])
    /\ UNCHANGED codexVars

\* An activation that tests the role of "system" whoever the requester is.
SystemIsIntegrator(requester) == has_role("system", "integrator")

\* ac.has_role(requester, "integrator")
IsIntegrator(requester) == has_role(requester, "integrator")

\* An activation that marks the record whatever the integration reported.
ActivatedWhateverReport(meta, report) == [meta EXCEPT !.activated = TRUE]

\* if report.get("success"): meta["activated"] = True, and the record rewritten
Activated(meta, report) ==
    IF report.success THEN [meta EXCEPT !.activated = TRUE] ELSE meta

activate_staged(staged_path, requester) ==
    /\ UNCHANGED <<accessVars, hubVars>>
    /\ UNCHANGED outsideCodex
    /\ IF ~IsIntegrator(requester)
       THEN Refuse(staged_path, requester, "unauthorized")
       ELSE IF staged_path \notin DOMAIN staged
       THEN Refuse(staged_path, requester, "FileNotFoundError")
       ELSE IF staged[staged_path].archived \notin archives
       THEN Refuse(staged_path, requester, "missing_artifact")
       ELSE \E order \in Orders(DOMAIN generated) :
            LET result == IntegrateAcrossProject(order, <<>>)
            IN  /\ Leave(result)
                /\ staged' = [staged EXCEPT ![staged_path] = Activated(@, result.ret)]
                /\ last' = Call("activate_staged", <<staged_path, requester>>,
                                IF result.ret.success
                                THEN [success |-> TRUE, report |-> result.ret]
                                ELSE [success |-> FALSE,
                                      error |-> "integration_failed",
                                      report |-> result.ret])
                /\ UNCHANGED <<allow_integration, read_only, learning_manager, current_style,
                               seen, generated, archives, failed_checks>>
                /\ audited' = {}

-----------------------------------------------------------------------------
(* CodexDeusMaximus: implement_request *)

DEFAULT_STYLES ==
    <<"idiomatic_python", "functional", "object_oriented", "procedural",
      "verbose_commented", "concise", "typed_annotations", "docstring_heavy",
      "test_first_stub", "async_first">>

StyleNames == {DEFAULT_STYLES[i] : i \in DOMAIN DEFAULT_STYLES}

\* The character map of _safe_filename: alphanumerics, "-" and "_" are kept
\* and every other character becomes "_".  Request ids are hex digests.
Sanitised(text) ==
    IF text = "a b" THEN "a_b" ELSE IF text = "x\n(" THEN "x__" ELSE text

\* _safe_filename(text)
_safe_filename(text) == IF text = "" THEN "codex_impl" ELSE Sanitised(text)

\* _safe_filename(f"{req_id}_{topic}"): never empty, mapped character by character
FileStem(req_id, topic) == ToString(<<Sanitised(req_id), "_", Sanitised(topic)>>)

\* os.path.join(generated_dir, topic, f"{ts}_{file_name}")
ArchivedPath(ts, topic, stem) == ToString(<<topic, ts, stem>>)

\* fn_stub = _safe_filename(f"impl_{topic}") keeps a "-", which no Python
\* identifier may hold; a line break in the description ends a "#" comment.
HasHyphen(topic) == topic \in {"a-b"}
\* A topic with a line break ends the "#" comment a template puts it in, and
\* what follows the break, here "(", is read as code.
BreaksComment(topic) == topic \in {"x\n("}
MultiLine(description) == description \in {"two\nlines"}

\* _validate_python_syntax(_apply_style_template(topic, description, style))[0]
Valid(topic, description, style) ==
    /\ ~HasHyphen(topic)
    /\ MultiLine(description) =>
          style \notin {"functional", "object_oriented", "procedural",
                        "verbose_commented"}
    /\ BreaksComment(topic) =>
          style \in {"concise", "docstring_heavy", "test_first_stub"}

\* The content implement_request writes: the template of a style applied to a
\* topic and a description.
Content(topic, description, style) ==
    [topic |-> topic, description |-> description, style |-> style]

\* A validator that accepts whatever it is given.
AcceptAnything(content) == TRUE

\* _validate_python_syntax(code)[0]: ast.parse(code) raises nothing
_validate_python_syntax(content) ==
    Valid(content.topic, content.description, content.style)

\* A generator that does not remember what it ignored.
ForgetSeen(fp) == seen

\* self._seen.add(fp)
MarkSeen(fp) == seen \cup {fp}

\* A fallback that goes through DEFAULT_STYLES from its end.
RECURSIVE Reversed(_)
Reversed(styles) ==
    IF styles = <<>> THEN <<>> ELSE Append(Reversed(Tail(styles)), Head(styles))
TriedBackwards(chosen_style) ==
    <<chosen_style>> \o SelectSeq(Reversed(DEFAULT_STYLES), LAMBDA s : s # chosen_style)

\* A test that lets a seen description through once its request is approved.
SeenUnlessApproved(description) ==
    /\ Sha256(description) \in seen
    /\ ~\E id \in DOMAIN requests :
          /\ requests[id].description = description
          /\ requests[id].status = APPROVED

\* fp in getattr(self, "_seen", set())
AlreadySeen(description) == Sha256(description) \in seen

\* tried_styles: the chosen style, then DEFAULT_STYLES without it
Tried(chosen_style) ==
    <<chosen_style>> \o SelectSeq(DEFAULT_STYLES, LAMBDA s : s # chosen_style)

\* The styles tried up to and including the first that validates.
RECURSIVE TriedUntilValid(_, _, _)
TriedUntilValid(topic, description, styles) ==
    IF styles = <<>> THEN <<>>
    ELSE IF _validate_python_syntax(Content(topic, description, Head(styles)))
    THEN <<Head(styles)>>
    ELSE <<Head(styles)>> \o TriedUntilValid(topic, description, Tail(styles))

\* pending = any(r.get("description") == description or sha256(...) == fingerprint
\*               for r in self.learning_manager.requests.values())
PendingByDescription(description) ==
    \E id \in DOMAIN requests :
       \/ requests[id].description = description
       \/ Sha256(requests[id].description) = Sha256(description)

\* _is_pending_or_vaulted(description)
_is_pending_or_vaulted(description) ==
    IF ~learning_manager
    THEN [pending |-> FALSE, vaulted |-> FALSE]
    ELSE [pending |-> PendingByDescription(description),
          vaulted |-> Sha256(description) \in black_vault]

implement_request(req_id, topic, description, style) ==
    LET call(ret) == Call("implement_request", <<req_id, topic, description, style>>, ret)
        wanted == IF style = None THEN current_style ELSE style
        fp == Sha256(description)
        pv == _is_pending_or_vaulted(description)
        stem == FileStem(req_id, topic)
    IN  /\ UNCHANGED <<accessVars, hubVars>>
        /\ UNCHANGED outsideCodex
        /\ UNCHANGED <<allow_integration, read_only, learning_manager, targets, backups, staged,
                       held_report, failed_checks, audited,
                       before>>
        /\ \E chosen_style \in StyleNames :
              \* set_style(None) picks at random when the wanted style is unknown
              /\ wanted \in StyleNames => chosen_style = wanted
              /\ current_style' = IF wanted \in StyleNames THEN current_style
                                  ELSE chosen_style
              /\ IF AlreadySeen(description)
                 THEN /\ last' = call([success |-> FALSE, reason |-> "ignored_seen",
                                       fingerprint |-> fp])
                      /\ UNCHANGED <<seen, generated, archives>>
                 ELSE IF pv.pending \/ pv.vaulted
                 THEN /\ seen' = MarkSeen(fp)
                      /\ last' = call([success |-> FALSE,
                                       reason |-> "pending_or_vaulted"])
                      /\ UNCHANGED <<generated, archives>>
                 ELSE LET tried == TriedUntilValid(topic, description,
                                                   Tried(chosen_style))
                          final == tried[Len(tried)]
                      IN  IF ~_validate_python_syntax(Content(topic, description, final))
                          THEN /\ last' = call([success |-> FALSE,
                                                error |-> "SyntaxError",
                                                style |-> chosen_style,
                                                tried |-> tried])
                               /\ UNCHANGED <<seen, generated, archives>>
                          ELSE \E ts \in Timestamps :
                               /\ generated' =
                                     Put(generated, stem,
                                         Content(topic, description, final))
                               /\ archives' =
                                     archives \cup {ArchivedPath(ts, topic, stem)}
                               /\ last' = call([success |-> TRUE, path |-> stem,
                                                style |-> final,
                                                archived |->
                                                   ArchivedPath(ts, topic, stem)])
                               /\ UNCHANGED seen

\* ---- _audit, as the call of _on_approved on a pool thread makes it

\* entry = {"ts": ..., "action": action, "details": details}, for the event
\* the call was submitted with
AuditEntry(i) == [action |-> "implemented", details |-> pool[i].event]

\* if os.path.exists(self.audit_path): data = json.load(f) or [] else data = []
_audit_load(i) ==
    /\ pool[i].state = "running"
    /\ pool[i].cb = "codex._on_approved"
    /\ i \notin DOMAIN audit_data
    /\ audit_data' = Put(audit_data, i, audit_file)
    /\ UNCHANGED <<audit_file, ledgerVars, notifyVars, last>>
    /\ UNCHANGED <<lockVars, accessVars, hubVars, codexVars>>

\* data.append(entry); json.dump(data, f) into the file opened with "w";
\* the call of the listener returns.
_audit_dump(i) ==
    /\ pool[i].state = "running"
    /\ i \in DOMAIN audit_data
    /\ audit_file' = Append(audit_data[i], AuditEntry(i))
    /\ pool' = [pool EXCEPT ![i].state = "returned"]
    /\ UNCHANGED <<audit_data, ledgerVars, dispatch, last>>
    /\ UNCHANGED <<lockVars, accessVars, hubVars, codexVars>>

\* CodexAdapter.register_with_manager(manager): the adapter's _on_approved
\* becomes an approval listener and Codex gets its reference to the ledger.
register_with_manager ==
    /\ approval_listeners' =
          IF \E i \in 1..Len(approval_listeners) :
                approval_listeners[i] = "codex._on_approved"
          THEN approval_listeners
          ELSE Append(approval_listeners, "codex._on_approved")
    /\ learning_manager' = TRUE
    /\ last' = Call("register_with_manager", <<>>, None)
    /\ UNCHANGED <<requests, black_vault, notify_queue, db_requests, db_vault,
                   denied_to_vault, peer>>
    /\ UNCHANGED <<allow_integration, read_only, current_style, seen, generated, archives,
                   targets, backups, staged, held_report, failed_checks,
                   audited, before>>
    /\ UNCHANGED <<notifyVars, lockVars, accessVars, hubVars, auditVars>>

\* create_codex(allow_integration=...) with the given files under
\* generated_dir and the given target modules: nothing staged or seen, no
\* ledger attached, a style picked at random.
CodexStart(styles, modules, archived, switches, existing) ==
    /\ allow_integration \in switches
    /\ read_only = {}
    /\ learning_manager = FALSE
    /\ current_style \in styles
    /\ seen = {}
    /\ generated \in {[m \in S |-> Content("docs", "hello", "concise")] : S \in modules}
    /\ archives = archived
    /\ targets \in {[p \in TargetPaths |-> IF p \in S THEN Original ELSE NoFile] :
                      S \in existing}
    /\ backups = [p \in TargetPaths |-> NoFile]
    /\ staged = <<>>
    /\ held_report = NoReport
    /\ failed_checks = <<>>
    /\ audited = {}
    /\ audit_file = <<>>
    /\ audit_data = <<>>
    /\ before = [targets |-> targets, backups |-> backups]

\* Codex at rest, for the specifications of the other components.
CodexIdle == CodexStart({"concise"}, {{}}, {}, {FALSE}, {{}})
-----------------------------------------------------------------------------
(* Specifications *)

LedgerIdle ==
    /\ LedgerInit
    /\ last = Call("__init__", <<>>, None)

\* The components a specification leaves at rest.
RestIdle == AccessInit /\ HubInit /\ CodexIdle

\* N writers of one path.
InitLock == LockInit /\ LedgerIdle /\ RestIdle

NextLock ==
    \/ \E w \in Writers : _acquire_lock_create(w)
    \/ \E w \in Writers : _write_lockfile_open(w)
    \/ \E w \in Writers : _write_lockfile_write(w)
    \/ \E w \in Writers : _acquire_lock_inspect(w)
    \/ \E w \in Writers : _acquire_lock_remove_stale(w)
    \/ \E w \in Writers : _acquire_lock_poll(w)
    \/ \E w \in Writers : _atomic_write_json_mkstemp(w)
    \/ \E w \in Writers : _atomic_write_json_dump(w)
    \/ \E w \in Writers : _atomic_write_json_fsync(w)
    \/ \E w \in Writers : _atomic_write_json_replace(w)
    \/ \E w \in Writers : _release_lock_read(w)
    \/ \E w \in Writers : _release_lock_remove(w)

SpecLock == InitLock /\ [][NextLock]_vars

\* N writers of one path whose lock may be held by a process that keeps it.
InitHeld == HeldInit /\ LedgerIdle /\ RestIdle

SpecHeld == InitHeld /\ [][NextLock]_vars

\* The notification thread and its pool: requests are created and approved,
\* listeners are registered while the thread runs, and approved requests are
\* put on the queue.
NotifyTopics == {"docs"}
NotifyDescriptions == {"hello"}
NotifyListeners == {"cb1", "cb2"}

InitNotify == LedgerIdle /\ LockIdle /\ RestIdle

NextNotify ==
    \/ \E t \in NotifyTopics, d \in NotifyDescriptions, p \in Priorities :
          create_request(t, d, p)
    \/ \E id \in RequestIds, r \in Responses : approve_request(id, r)
    \/ \E cb \in NotifyListeners : register_approval_listener(cb)
    \/ \E id \in RequestIds : _notify_queue_put(id)
    \/ _notify_worker_get
    \/ _notify_worker_submit
    \/ \E i \in 1..Len(pool) : _executor_start(i)
    \/ \E i \in 1..Len(pool) : _listener_returns(i)
    \/ \E i \in 1..Len(pool) : _listener_raises(i)

SpecNotify == InitNotify /\ [][NextNotify]_vars

\* The adapter's listener on the pool: requests are approved and put on the
\* queue, and every call of the listener writes one audit entry.
InitAudit == LedgerIdle /\ LockIdle /\ RestIdle

NextAudit ==
    \/ \E t \in NotifyTopics, d \in NotifyDescriptions, p \in Priorities :
          create_request(t, d, p)
    \/ \E id \in RequestIds, r \in Responses : approve_request(id, r)
    \/ register_with_manager
    \/ \E id \in RequestIds : _notify_queue_put(id)
    \/ _notify_worker_get
    \/ _notify_worker_submit
    \/ \E i \in 1..Len(pool) : _executor_start(i)
    \/ \E i \in 1..Len(pool) : _audit_load(i)
    \/ \E i \in 1..Len(pool) : _audit_dump(i)

SpecAudit == InitAudit /\ [][NextAudit]_vars

\* The notification thread and the threads of the pool run: a step one of
\* them can take is taken, and a listener that was called returns or raises.
FairNotify ==
    /\ SpecNotify
    /\ WF_vars(_notify_worker_get)
    /\ WF_vars(_notify_worker_submit)
    /\ WF_vars(\E i \in 1..Len(pool) : _executor_start(i))
    /\ WF_vars(\E i \in 1..Len(pool) : _listener_returns(i))
    /\ WF_vars(\E i \in 1..Len(pool) : _listener_raises(i))

\* N writers of one path whose lock file was abandoned; a writer that timed
\* out tries again.
InitAbandoned == AbandonedInit /\ LedgerIdle /\ RestIdle

NextAbandoned ==
    \/ \E w \in Writers : _acquire_lock_create(w)
    \/ \E w \in Writers : _write_lockfile_open(w)
    \/ \E w \in Writers : _write_lockfile_write(w)
    \/ \E w \in Writers : _acquire_lock_inspect(w)
    \/ \E w \in Writers : _acquire_lock_remove_stale(w)
    \/ \E w \in Writers : _acquire_lock_poll(w)
    \/ \E w \in Writers : _atomic_write_json_mkstemp(w)
    \/ \E w \in Writers : _atomic_write_json_dump(w)
    \/ \E w \in Writers : _atomic_write_json_fsync(w)
    \/ \E w \in Writers : _atomic_write_json_replace(w)
    \/ \E w \in Writers : _release_lock_read(w)
    \/ \E w \in Writers : _release_lock_remove(w)
    \/ \E w \in Writers : _atomic_write_json_again(w)

SpecAbandoned == InitAbandoned /\ [][NextAbandoned]_vars

\* Every writer is a running thread or process: the step it is at is taken,
\* and a writer that timed out calls again.
WriterStep(w) ==
    \/ _acquire_lock_create(w)
    \/ _write_lockfile_open(w)
    \/ _write_lockfile_write(w)
    \/ _acquire_lock_inspect(w)
    \/ _acquire_lock_remove_stale(w)
    \/ _acquire_lock_poll(w)
    \/ _atomic_write_json_mkstemp(w)
    \/ _atomic_write_json_dump(w)
    \/ _atomic_write_json_fsync(w)
    \/ _atomic_write_json_replace(w)
    \/ _release_lock_read(w)
    \/ _release_lock_remove(w)
    \/ _atomic_write_json_again(w)

FairAbandoned == SpecAbandoned /\ \A w \in Writers : WF_vars(WriterStep(w))

\* The request ledger on its own.
Init == LedgerIdle /\ LockIdle /\ RestIdle

Next == LedgerNext

Spec == Init /\ [][Next]_vars

\* The ledger with the process restarted between calls: requests of two
\* topics are created, approved and denied, and the ledger is opened anew.
ReloadTopics == {"docs", "a-b"}
ReloadDescriptions == {"hello", "two\nlines"}

InitReload == LedgerIdle /\ LockIdle /\ RestIdle

NextReload ==
    \/ \E t \in ReloadTopics, d \in ReloadDescriptions, p \in Priorities :
          create_request(t, d, p)
    \/ \E id \in RequestIds, r \in Responses : approve_request(id, r)
    \/ \E id \in RequestIds, r \in Reasons, v \in BOOLEAN : deny_request(id, r, v)
    \/ reopen

SpecReload == InitReload /\ [][NextReload]_vars

\* The ledger with its read side: requests of two topics are created,
\* approved and denied, and the statistics and the pending list are read in
\* between.
InitStats == LedgerIdle /\ LockIdle /\ RestIdle

NextStats ==
    \/ \E t \in ReloadTopics, d \in ReloadDescriptions, p \in Priorities :
          create_request(t, d, p)
    \/ \E id \in RequestIds, r \in Responses : approve_request(id, r)
    \/ \E id \in RequestIds, r \in Reasons, v \in BOOLEAN : deny_request(id, r, v)
    \/ get_pending
    \/ get_statistics

SpecStats == InitStats /\ [][NextStats]_vars

\* Two managers on one data directory: requests are created and denied on
\* the one the caller holds, the second one is opened at some moment, and
\* the caller goes from one to the other.
InitPeers == LedgerIdle /\ LockIdle /\ RestIdle

NextPeers ==
    \/ \E t \in ReloadTopics, d \in ReloadDescriptions, p \in Priorities :
          create_request(t, d, p)
    \/ \E id \in RequestIds, r \in Reasons, v \in BOOLEAN : deny_request(id, r, v)
    \/ open_peer
    \/ switch_ledger

SpecPeers == InitPeers /\ [][NextPeers]_vars

\* Access control, staging and the three entry points of integration, with
\* one or two modules generated and no project registered with the hub.
TargetLists == {<<>>, <<"lib.py">>, <<"src/app/main.py", "lib.py">>}
GatingRoles == {"integrator"}

InitInteg ==
    /\ LedgerIdle /\ LockIdle /\ AccessInit /\ HubInit
    /\ CodexStart({"concise"}, {{"gen"}, {"gen", "gen2"}}, {"docs/0_gen.py"},
                  BOOLEAN, {{"src/app/main.py"}, TargetPaths})

NextInteg ==
    \/ \E u \in Users, r \in GatingRoles : grant_role(u, r)
    \/ \E u \in Users, r \in GatingRoles : revoke_role(u, r)
    \/ \E id \in StageIds, a \in ArchivePaths : stage_artifact(id, a, "docs", "hello")
    \/ \E p \in StagedPaths, u \in Users : activate_staged(p, u)
    \/ \E tm \in TargetLists : integrate_across_project(tm)
    \/ \E tm \in TargetLists : integrate_approved(tm)

SpecInteg == InitInteg /\ [][NextInteg]_vars

\* Integration and rollback of the report the caller holds, with none, one or
\* two modules generated.
HeldReports == {held_report} \ {NoReport}

InitRollback ==
    /\ LedgerIdle /\ LockIdle /\ AccessInit /\ HubInit
    /\ CodexStart({"concise"}, SUBSET Stems, {}, BOOLEAN,
                  {{"src/app/main.py"}, TargetPaths})

NextRollback ==
    \/ \E tm \in TargetLists : integrate_across_project(tm)
    \/ \E tm \in TargetLists : integrate_approved(tm)
    \/ \E report \in HeldReports : rollback_integrations(report)

SpecRollback == InitRollback /\ [][NextRollback]_vars

\* Rollback of the report the caller holds or of the report of an earlier
\* integration of gen into src/app/main.py and lib.py, between integrations
\* of either target or both.
EarlierReport ==
    [success |-> TRUE,
     report |-> [integrated |->
                    <<[target |-> "src/app/main.py", module |-> "gen",
                       backup |-> Bak("src/app/main.py")],
                      [target |-> "lib.py", module |-> "gen",
                       backup |-> Bak("lib.py")]>>,
                 skipped |-> <<>>, errors |-> <<>>]]
UndoReports == HeldReports \cup {EarlierReport}
UndoTargets == {<<"lib.py">>, <<"src/app/main.py">>, <<"src/app/main.py", "lib.py">>}

InitUndo ==
    /\ LedgerIdle /\ LockIdle /\ AccessInit /\ HubInit
    /\ CodexStart({"concise"}, {{"gen"}, {"gen", "gen2"}}, {}, {TRUE}, {TargetPaths})

NextUndo ==
    \/ \E tm \in UndoTargets : integrate_across_project(tm)
    \/ \E report \in UndoReports : rollback_integrations(report)

SpecUndo == InitUndo /\ [][NextUndo]_vars

\* Staging and activation by integrators, with one module generated and its
\* archive on disk, integration allowed, and a project registered with the
\* hub or not.
InitActivate ==
    /\ LedgerIdle /\ LockIdle /\ AccessInit /\ HubInit
    /\ CodexStart({"concise"}, {{"gen"}}, {"docs/0_gen.py"}, {TRUE}, {TargetPaths})

NextActivate ==
    \/ register_project
    \/ toggle_agents
    \/ \E u \in Users, r \in GatingRoles : grant_role(u, r)
    \/ \E id \in StageIds, a \in ArchivePaths : stage_artifact(id, a, "docs", "hello")
    \/ \E p \in StagedPaths, u \in Users : activate_staged(p, u)
    \/ \E report \in HeldReports : rollback_integrations(report)

SpecActivate == InitActivate /\ [][NextActivate]_vars

\* Integration and activation while targets become read-only.
InitFail ==
    /\ LedgerIdle /\ LockIdle /\ AccessInit /\ HubInit
    /\ CodexStart({"concise"}, {{"gen"}, {"gen", "gen2"}}, {"docs/0_gen.py"}, {TRUE},
                  {TargetPaths})

NextFail ==
    \/ \E tgt \in TargetPaths : protect(tgt)
    \/ \E id \in StageIds, a \in ArchivePaths : stage_artifact(id, a, "docs", "hello")
    \/ \E p \in StagedPaths, u \in Users : activate_staged(p, u)
    \/ \E tm \in TargetLists : integrate_across_project(tm)

SpecFail == InitFail /\ [][NextFail]_vars

\* The quality gate of integrate_approved, with a project registered or not
\* and the two gate agents enabled or not.
InitGate ==
    /\ LedgerIdle /\ LockIdle /\ AccessInit /\ HubInit
    /\ CodexStart({"concise"}, {{"gen"}}, {}, {FALSE}, {{"src/app/main.py"}})

NextGate ==
    \/ register_project
    \/ toggle_agents
    \/ \E tm \in {<<>>} : integrate_approved(tm)

SpecGate == InitGate /\ [][NextGate]_vars

\* The ledger with Codex attached to it: requests of one topic are created,
\* approved and denied, and implement_request is called as the adapter calls
\* it for a stored request, or directly.
GenTopics == {"a b"}
GenDescriptions == {"hello", "two\nlines"}

InitGen ==
    /\ LedgerIdle /\ LockIdle /\ AccessInit /\ HubInit
    /\ CodexStart({"functional", "concise"}, {{}}, {}, {FALSE}, {{}})

NextGen ==
    \/ \E d \in GenDescriptions, p \in Priorities : create_request("docs", d, p)
    \/ \E id \in DOMAIN requests, r \in Responses : approve_request(id, r)
    \/ \E id \in DOMAIN requests, r \in Reasons, v \in BOOLEAN : deny_request(id, r, v)
    \/ register_with_manager
    \/ \E id \in DOMAIN requests :
          implement_request(id, requests[id].topic, requests[id].description, None)
    \/ \E t \in GenTopics, d \in GenDescriptions :
          implement_request("r1", t, d, None)

SpecGen == InitGen /\ [][NextGen]_vars

\* Codex called as the adapter calls it, for the requests of a ledger that is
\* attached to it or not, while they are pending and after they are approved.
InitDedup ==
    /\ LedgerIdle /\ LockIdle /\ AccessInit /\ HubInit
    /\ CodexStart({"concise"}, {{}}, {}, {FALSE}, {{}})

NextDedup ==
    \/ \E d \in GenDescriptions, p \in Priorities : create_request("docs", d, p)
    \/ \E id \in DOMAIN requests, r \in Responses : approve_request(id, r)
    \/ register_with_manager
    \/ \E id \in DOMAIN requests :
          implement_request(id, requests[id].topic, requests[id].description, None)

SpecDedup == InitDedup /\ [][NextDedup]_vars

\* Codex called for the requests of the attached ledger at every stage of
\* their life: pending, approved, denied, denied into the Black Vault.
SeenDescriptions == {"hello"}

InitSeen ==
    /\ LedgerIdle /\ LockIdle /\ AccessInit /\ HubInit
    /\ CodexStart({"concise"}, {{}}, {}, {FALSE}, {{}})

NextSeen ==
    \/ \E d \in SeenDescriptions, p \in Priorities : create_request("docs", d, p)
    \/ \E id \in DOMAIN requests, r \in Responses : approve_request(id, r)
    \/ \E id \in DOMAIN requests, r \in Reasons, v \in BOOLEAN : deny_request(id, r, v)
    \/ register_with_manager
    \/ \E id \in DOMAIN requests :
          implement_request(id, requests[id].topic, requests[id].description, None)

SpecSeen == InitSeen /\ [][NextSeen]_vars

\* implement_request on its own, no ledger attached: every topic, description
\* and style a caller may pass, a style that is not one of DEFAULT_STYLES
\* among them.
StyleTopics == {"docs", "a-b"}
StyleArguments == {None, "functional", "concise", "baroque"}

InitStyle ==
    /\ LedgerIdle /\ LockIdle /\ AccessInit /\ HubInit
    /\ CodexStart({"functional", "async_first"}, {{}}, {}, {FALSE}, {{}})

NextStyle ==
    \/ \E t \in StyleTopics, d \in GenDescriptions, s \in StyleArguments :
          implement_request("r1", t, d, s)

SpecStyle == InitStyle /\ [][NextStyle]_vars

\* implement_request with topics for which the rendering of most styles, or
\* of every style, does not parse.
FallbackTopics == {"a-b", "x\n("}

InitFallback ==
    /\ LedgerIdle /\ LockIdle /\ AccessInit /\ HubInit
    /\ CodexStart({"functional", "async_first"}, {{}}, {}, {FALSE}, {{}})

NextFallback ==
    \/ \E t \in FallbackTopics, d \in GenDescriptions, s \in StyleArguments :
          implement_request("r1", t, d, s)

SpecFallback == InitFallback /\ [][NextFallback]_vars

\* The access control manager on its own: users are added with the role
\* lists a caller may pass, one with a role twice among them, and roles are
\* granted and revoked.
RoleLists == {<<>>, <<"expert">>, <<"integrator", "integrator">>}

InitAccess == LedgerIdle /\ LockIdle /\ RestIdle

NextAccess ==
    \/ \E u \in Users, roles \in RoleLists : add_user(u, roles)
    \/ \E u \in Users, r \in Roles : grant_role(u, r)
    \/ \E u \in Users, r \in Roles : revoke_role(u, r)

SpecAccess == InitAccess /\ [][NextAccess]_vars

\* The access control manager over restarts of its process: the file is
\* missing, unreadable, or a table with or without a record for system; the
\* manager is constructed on first use and the process may end between calls.
BootTables ==
    {[u \in {"alice"} |-> <<"expert">>],
     [u \in {"system"} |-> <<>>],
     [u \in {"system", "alice"} |-> IF u = "system" THEN <<"expert">>
                                     ELSE <<"integrator">>]}
BootLists == {<<>>, <<"integrator">>}

InitBoot ==
    /\ LedgerIdle /\ LockIdle /\ HubInit /\ CodexIdle
    /\ users = <<>>
    /\ manager = FALSE
    /\ ac_storage \in {NoStorage, CorruptStorage} \cup {Stored(t) : t \in BootTables}

NextBoot ==
    \/ get_access_control
    \/ exit_process
    \/ \E u \in Users, roles \in BootLists : add_user(u, roles)
    \/ \E u \in Users, r \in Roles : grant_role(u, r)
    \/ \E u \in Users, r \in Roles : revoke_role(u, r)

SpecBoot == InitBoot /\ [][NextBoot]_vars

\* The hub routing messages between two agents that are registered,
\* replaced and unregistered, the project head and an unregistered sender.
AgentIds == {"dummy", "to_cut"}
Senders == AgentIds \cup {"tester"}
Recipients == AgentIds \cup {PA, "curator"}
Messages == {"hello"}

InitHub == LedgerIdle /\ LockIdle /\ RestIdle

NextHub ==
    \/ register_project
    \/ \E a \in AgentIds, o \in Objects : register_agent(a, o)
    \/ \E a \in AgentIds : unregister_agent(a)
    \/ \E f \in Senders, t \in Recipients, m \in Messages, a \in Analyses :
          route_message(f, t, m, a)

SpecHub == InitHub /\ [][NextHub]_vars

\* The autonomous learning thread of the hub, started and stopped by the
\* caller's thread while files are dropped into data/autolearn.
IterationOutcomes == {"returns", "raises"}

InitLoop == LedgerIdle /\ LockIdle /\ RestIdle

NextLoop ==
    \/ register_project
    \/ \E fn \in AutolearnFiles : drop_file(fn)
    \/ start_autonomous_learning
    \/ stop_autonomous_learning
    \/ _autolearn_loop_test
    \/ \E o \in IterationOutcomes : _autolearn_once(o)
    \/ _autolearn_wait

SpecLoop == InitLoop /\ [][NextLoop]_vars

\* The thread is a daemon thread of a running interpreter: a step it can
\* take is taken, and _autolearn_once returns or raises.
FairLoop ==
    /\ SpecLoop
    /\ WF_vars(_autolearn_loop_test)
    /\ WF_vars(\E o \in IterationOutcomes : _autolearn_once(o))
    /\ WF_vars(_autolearn_wait)

-----------------------------------------------------------------------------
(* Properties of the request ledger, checked under Spec *)

Terminal == {APPROVED, DENIED}

\* C1: once a request is APPROVED or DENIED, no later approve_request or
\* deny_request call changes its status.
C1_TerminalStatusIsFinal ==
    [][last'.op \in {"approve_request", "deny_request"} =>
         \A id \in DOMAIN requests :
            requests[id].status \in Terminal =>
               requests'[id].status = requests[id].status]_vars

\* C2: once deny_request(id, reason, to_vault=True) has succeeded for a request
\* with description D, every later create_request(topic, D) returns "" and
\* adds or changes no request, whatever the topic.
C2_VaultedDescriptionNeverCreated ==
    [][(last'.op = "create_request" /\ last'.args[2] \in denied_to_vault) =>
          (last'.ret = "" /\ requests' = requests)]_vars

\* C2 witness: a create_request with a non-empty topic and a description that
\* was denied to the vault has just returned "", while another request with
\* the same description, created before the denial, is stored.
C2_Witness ==
    /\ last.op = "create_request"
    /\ last.args[1] # ""
    /\ last.args[2] \in denied_to_vault
    /\ last.ret = ""
    /\ \E id \in DOMAIN requests :
          /\ requests[id].description = last.args[2]
          /\ requests[id].topic # last.args[1]

\* C3: every successful approve_request(id, response) puts one event
\* (id, request) on the notification queue.
C3_ApproveEnqueuesOneEvent ==
    [][(last'.op = "approve_request" /\ last'.ret = TRUE) =>
          notify_queue' =
             Append(notify_queue, <<last'.args[1], requests'[last'.args[1]]>>)]_vars

-----------------------------------------------------------------------------
(* Properties of the atomic writer, checked under SpecLock *)

\* C6: with N concurrent writers of one path, the target file is at every
\* moment absent or the complete payload of one writer, and once every writer
\* has finished it holds the payload of a writer that completed its write.
C6_TargetIsOneWholePayload ==
    /\ \/ target_file = Absent
       \/ \E w \in Writers : target_file = Payload(w)
    /\ (\A w \in Writers : Finished(w)) =>
          \E w \in Writers : pc[w] = "done" /\ target_file = Payload(w)

\* C6 witness: two writers have both completed their write of the same path,
\* and the target holds the payload of one of them.
C6_Witness ==
    \E w1, w2 \in Writers :
       /\ w1 # w2
       /\ pc[w1] = "done" /\ pc[w2] = "done"
       /\ target_file = Payload(w1)

\* C7: at no time do two writers both hold the lock of the same path.
C7_LockMutualExclusion ==
    \A w1, w2 \in Writers : (HoldsLock(w1) /\ HoldsLock(w2)) => w1 = w2

-----------------------------------------------------------------------------
(* Properties of access control and integration, checked under SpecInteg *)

\* C4 as stated: none of integrate_across_project, integrate_approved and
\* activate_staged appends to a target file or creates a backup in a state
\* where has_role("system", "integrator") is false.
C4_NoEntryPointWithoutSystemRole ==
    [][(/\ last'.op \in {"integrate_across_project", "integrate_approved",
                         "activate_staged"}
        /\ (targets' # targets \/ backups' # backups))
          => has_role("system", "integrator")]_vars

\* C4 amended: integrate_across_project and activate_staged append to a target
\* file or create a backup only in a state where integration is enabled and
\* has_role("system", "integrator") is true; integrate_approved consults no
\* access control.
C4_ManualEntryPointsNeedSystemRole ==
    [][(/\ last'.op \in {"integrate_across_project", "activate_staged"}
        /\ (targets' # targets \/ backups' # backups))
          => (allow_integration /\ has_role("system", "integrator"))]_vars

\* C4 witness: with integration enabled and a module to integrate into an
\* existing src/app/main.py, integrate_across_project has just returned
\* integration_not_allowed and left every file alone, because "system" had
\* lost the integrator role.
C4_Witness ==
    /\ last.op = "integrate_across_project"
    /\ allow_integration
    /\ ~has_role("system", "integrator")
    /\ last.ret = [success |-> FALSE, reason |-> "integration_not_allowed"]
    /\ targets = before.targets /\ backups = before.backups
    /\ targets["src/app/main.py"] = Original
    /\ DOMAIN generated # {}

\* C8: activate_staged(staged_path, requester) returns the error unauthorized
\* whenever the requester lacks the integrator role at the call, and then
\* changes no target, no backup and no staged record; when the requester holds
\* the role the call does not return unauthorized.
C8_ActivateStagedNeedsIntegrator ==
    [][last'.op = "activate_staged" =>
          LET requester == last'.args[2]
              ret == last'.ret
              unauthorized == "error" \in DOMAIN ret /\ ret.error = "unauthorized"
          IN  IF requester \in DOMAIN users /\ InList("integrator", users[requester])
              THEN ~unauthorized
              ELSE /\ unauthorized
                   /\ ~ret.success
                   /\ targets' = targets
                   /\ backups' = backups
                   /\ staged' = staged]_vars

\* C8 witness: "alice", who starts without any role, has activated a staged
\* record after being granted integrator: the record is marked activated and
\* the module is imported into src/app/main.py.
C8_Witness ==
    /\ last.op = "activate_staged"
    /\ last.args[2] = "alice"
    /\ last.ret.success
    /\ staged[last.args[1]].activated
    /\ targets["src/app/main.py"].imports # <<>>

-----------------------------------------------------------------------------
(* Properties of integration and rollback, checked under SpecRollback *)

\* C5: when no backup file exists, an integrate call followed at once by
\* rollback_integrations on the report it returned leaves every target file
\* with the content it had before the integrate call, and no backup file.
C5_RollbackRestoresEveryTarget ==
    [][(/\ last'.op = "rollback_integrations"
        /\ last.op \in {"integrate_across_project", "integrate_approved"}
        /\ last'.args[1] = last.ret
        /\ \A p \in TargetPaths : ~before.backups[p].exists)
          => (/\ targets' = before.targets
              /\ \A p \in TargetPaths : ~backups'[p].exists)]_vars

-----------------------------------------------------------------------------
(* Properties of the quality gate, checked under SpecGate *)

\* C9: integrate_approved returns a blocked result carrying the failures, and
\* changes no target and no backup, exactly when the gate recorded a failure
\* that is not a test run with return code 5 whose output says no tests ran;
\* otherwise it integrates: it returns a report and every generated module is
\* imported into the existing target.
C9_BlockedExactlyOnRealFailure ==
    [][last'.op = "integrate_approved" =>
          LET ret == last'.ret
              noTestsCollected(f) ==
                 /\ f.stage = "qa_run"
                 /\ f.returncode = 5
                 /\ f.output \in {"no tests ran in 0.01s", "NO TESTS RAN"}
              real == {i \in DOMAIN failed_checks' :
                          ~noTestsCollected(failed_checks'[i])}
          IN  IF real # {}
              THEN /\ ~ret.success
                   /\ "blocked" \in DOMAIN ret /\ ret.blocked
                   /\ {ret.failures[i] : i \in DOMAIN ret.failures}
                         = {failed_checks'[i] : i \in real}
                   /\ targets' = targets
                   /\ backups' = backups
              ELSE /\ ret.success
                   /\ "report" \in DOMAIN ret
                   /\ \A m \in DOMAIN generated :
                         Imported(targets'["src/app/main.py"], m)]_vars

\* C9 witness: the gate recorded a failed dependency audit and a test run
\* that collected no tests; integrate_approved returned blocked with the
\* dependency failure alone and src/app/main.py is as it was.
C9_Witness ==
    /\ last.op = "integrate_approved"
    /\ Len(failed_checks) = 2
    /\ failed_checks[1].stage = "dependency"
    /\ failed_checks[2].stage = "qa_run" /\ failed_checks[2].returncode = 5
    /\ ~last.ret.success
    /\ last.ret.failures = <<failed_checks[1]>>
    /\ targets["src/app/main.py"] = Original

-----------------------------------------------------------------------------
(* Properties of implement_request, checked under SpecGen *)

\* C10: implement_request returns the pending_or_vaulted result only when a
\* request with the same description has status PENDING or the hash of the
\* description is in the black vault; for an unseen, unvaulted description
\* whose only matching requests are APPROVED it renders and validates instead.
C10_IgnoredOnlyWhenPendingOrVaulted ==
    [][last'.op = "implement_request" =>
          LET description == last'.args[3]
              ret == last'.ret
              matching == {id \in DOMAIN requests :
                              requests[id].description = description}
              pending == \E id \in matching : requests[id].status = PENDING
              vaulted == Sha256(description) \in black_vault
              ignored == "reason" \in DOMAIN ret /\ ret.reason = "pending_or_vaulted"
          IN  /\ ignored => (pending \/ vaulted)
              /\ (/\ Sha256(description) \notin seen
                  /\ ~vaulted
                  /\ matching # {}
                  /\ \A id \in matching : requests[id].status = APPROVED)
                    => "reason" \notin DOMAIN ret]_vars

-----------------------------------------------------------------------------
(* Properties of implement_request, checked under SpecDedup and SpecStyle *)

\* C11 as stated: when implement_request is called twice in a row with a
\* description whose request is pending in the attached ledger, the second
\* call returns the pending_or_vaulted result and writes no file.
C11_SecondCallReturnsPendingOrVaulted ==
    [][(/\ last.op = "implement_request"
        /\ last'.op = "implement_request"
        /\ last'.args[3] = last.args[3]
        /\ learning_manager
        /\ \E id \in DOMAIN requests :
              /\ requests[id].description = last.args[3]
              /\ requests[id].status = PENDING)
          => (/\ "reason" \in DOMAIN last'.ret
              /\ last'.ret.reason = "pending_or_vaulted"
              /\ generated' = generated
              /\ archives' = archives)]_vars

\* C11 amended: a call of implement_request with a description whose request
\* is pending in the attached ledger fails, writes no file and leaves the
\* fingerprint of the description in the seen set; the seen set never
\* shrinks; and every call with a description whose fingerprint is in the
\* seen set returns ignored_seen and writes no file.  So of two calls with
\* the same pending description the first returns pending_or_vaulted or
\* ignored_seen, the second returns ignored_seen, and neither writes a file.
C11_SecondCallReturnsIgnoredSeen ==
    [][/\ seen \subseteq seen'
       /\ last'.op = "implement_request" =>
             LET description == last'.args[3]
                 ret == last'.ret
                 pending == \E id \in DOMAIN requests :
                               /\ requests[id].description = description
                               /\ requests[id].status = PENDING
                 untouched == generated' = generated /\ archives' = archives
             IN  /\ (learning_manager /\ pending) =>
                       /\ ~ret.success
                       /\ untouched
                       /\ Sha256(description) \in seen'
                 /\ Sha256(description) \in seen =>
                       /\ ~ret.success
                       /\ ret.reason = "ignored_seen"
                       /\ untouched]_vars

\* C11 witness: implement_request has just returned ignored_seen for the
\* description of a request that is still pending in the attached ledger,
\* and nothing was ever generated.
C11_Witness ==
    /\ last.op = "implement_request"
    /\ learning_manager
    /\ last.args[1] \in DOMAIN requests
    /\ requests[last.args[1]].status = PENDING
    /\ requests[last.args[1]].description = last.args[3]
    /\ last.ret = [success |-> FALSE, reason |-> "ignored_seen",
                   fingerprint |-> Sha256(last.args[3])]
    /\ generated = <<>>
    /\ archives = {}

\* C12: implement_request returns success only when the file at the returned
\* path holds exactly the text rendered in the style the result reports and
\* that text parses as Python, whether the style is the one first chosen or a
\* fallback; a call that does not return success writes no artifact and no
\* archive copy, and a call for which no style renders valid Python does not
\* return success.
C12_WrittenContentPassedValidation ==
    [][last'.op = "implement_request" =>
         LET topic == last'.args[2]
             description == last'.args[3]
             ret == last'.ret
         IN  /\ ret.success =>
                   /\ ret.style \in StyleNames
                   /\ Valid(topic, description, ret.style)
                   /\ ret.path \in DOMAIN generated'
                   /\ generated'[ret.path] = Content(topic, description, ret.style)
                   /\ archives' = archives \cup {ret.archived}
                   /\ \A path \in DOMAIN generated' \ {ret.path} :
                         /\ path \in DOMAIN generated
                         /\ generated'[path] = generated[path]
             /\ ~ret.success =>
                   /\ generated' = generated
                   /\ archives' = archives
             /\ (\A s \in StyleNames : ~Valid(topic, description, s)) =>
                   ~ret.success]_vars

\* C12 witness: implement_request was asked for a style whose rendering does
\* not parse, fell back to another style and wrote that style's rendering.
C12_Witness ==
    /\ last.op = "implement_request"
    /\ last.args[4] \in StyleNames
    /\ ~Valid(last.args[2], last.args[3], last.args[4])
    /\ last.ret.success
    /\ last.ret.style # last.args[4]
    /\ generated[last.ret.path] = Content(last.args[2], last.args[3], last.ret.style)

-----------------------------------------------------------------------------
(* Properties of integrate_across_project, checked under SpecInteg *)

-----------------------------------------------------------------------------
(* Properties of the hub, checked under SpecHub and FairLoop *)

\* C14: a route_message whose message Cerberus flags unsafe returns
\* delivered false with the reason unsafe, leaves a registered sender
\* inactive, calls deactivate on the sender's object when the object has
\* one, calls nothing else (no receive_message of any recipient) and changes
\* no other agent's entry.
C14_UnsafeMessageCutsSender ==
    [][(last'.op = "route_message" /\ ~cerberus_result'.is_safe) =>
         LET from_id == last'.args[1]
             ret == last'.ret
         IN  /\ ret.delivered = FALSE
             /\ ret.reason = "unsafe"
             /\ DOMAIN agents' = DOMAIN agents
             /\ \A a \in DOMAIN agents \ {from_id} : agents'[a] = agents[a]
             /\ from_id \in DOMAIN agents =>
                   /\ agents'[from_id].active = FALSE
                   /\ agents'[from_id].obj = agents[from_id].obj
                   /\ invoked' = IF agents[from_id].obj.deactivate # NoMethod
                                 THEN <<<<from_id, "deactivate">>>>
                                 ELSE <<>>
             /\ from_id \notin DOMAIN agents => invoked' = <<>>]_vars

\* C14 witness: an unsafe message from a registered sender to a registered,
\* active recipient that has receive_message was refused: the sender is
\* inactive and deactivate was the only call made.
C14_Witness ==
    /\ last.op = "route_message"
    /\ ~cerberus_result.is_safe
    /\ last.args[1] \in DOMAIN agents
    /\ last.args[2] \in DOMAIN agents
    /\ last.args[1] # last.args[2]
    /\ agents[last.args[2]].obj.receive_message = "returns"
    /\ agents[last.args[2]].active
    /\ ~agents[last.args[1]].active
    /\ invoked = <<<<last.args[1], "deactivate">>>>
    /\ last.ret.delivered = FALSE /\ last.ret.reason = "unsafe"

-----------------------------------------------------------------------------
(* Properties of the ledger calls, checked under Spec and SpecReload *)

\* C16: deny_request on a known id returns True, leaves that request DENIED
\* with the given reason and its other fields as they were, changes no other
\* request and adds or removes none; the vault gains exactly the hash of
\* that request's description when to_vault is true and is unchanged when
\* to_vault is false.
C16_DenyChangesOneRequest ==
    [][(last'.op = "deny_request" /\ last'.args[1] \in DOMAIN requests) =>
         LET id == last'.args[1]
             to_vault == last'.args[3]
         IN  /\ last'.ret = TRUE
             /\ DOMAIN requests' = DOMAIN requests
             /\ requests'[id] = [requests[id] EXCEPT !.status = DENIED,
                                                    !.reason = last'.args[2]]
             /\ \A other \in DOMAIN requests \ {id} :
                   requests'[other] = requests[other]
             /\ to_vault =>
                   black_vault' =
                      black_vault \cup {Sha256(requests[id].description)}
             /\ ~to_vault => black_vault' = black_vault]_vars

\* C16 witness: of two stored requests one was just denied without vaulting:
\* it is DENIED with the reason, the other is not, and the vault is empty.
C16_Witness ==
    /\ last.op = "deny_request"
    /\ last.ret = TRUE
    /\ last.args[3] = FALSE
    /\ requests[last.args[1]].status = DENIED
    /\ requests[last.args[1]].reason = last.args[2]
    /\ \E other \in DOMAIN requests : requests[other].status # DENIED
    /\ black_vault = {}

\* C17: create_request with an empty topic or an empty description returns
\* "" and approve_request and deny_request with an unknown id return False;
\* each leaves the requests, the vault, the queue of notifications and the
\* database as they were.
C17_FailedCallChangesNothing ==
    [][LET op == last'.op
           args == last'.args
           failing ==
              \/ op = "create_request" /\ (args[1] = "" \/ args[2] = "")
              \/ op \in {"approve_request", "deny_request"}
                    /\ args[1] \notin DOMAIN requests
       IN  failing =>
             /\ last'.ret = IF op = "create_request" THEN "" ELSE FALSE
             /\ requests' = requests
             /\ black_vault' = black_vault
             /\ notify_queue' = notify_queue
             /\ db_requests' = db_requests
             /\ db_vault' = db_vault]_vars

\* C17 witness: with a request stored and a hash in the vault, a
\* create_request with a topic and an empty description has returned "".
C17_Witness ==
    /\ last.op = "create_request"
    /\ last.args[1] # "" /\ last.args[2] = ""
    /\ last.ret = ""
    /\ DOMAIN requests # {}
    /\ black_vault # {}

-----------------------------------------------------------------------------
(* Properties of lock acquisition, checked under SpecHeld *)

\* C19: while the lock file of a path is one that stays (unparsable, or
\* fresh and owned by a running process that keeps it), no step of any
\* writer removes or rewrites the lock file, changes the target or creates a
\* temporary file; a writer is creating, inspecting or polling until its
\* _acquire_lock returns False and _atomic_write_json raises, after which it
\* does nothing more.
C19_TimedOutWriterLeavesLockAndTarget ==
    [][(lock_file \in HeldLocks) =>
         /\ lock_file' = lock_file
         /\ target_file' = target_file
         /\ tmp_file' = tmp_file
         /\ \A w \in Writers :
               /\ pc'[w] \in {"create", "inspect", "poll", "timed_out"}
               /\ (pc[w] = "timed_out" => pc'[w] = "timed_out")]_vars

\* C19 witness: the lock file is held by a running process, every writer
\* has timed out, and the target holds what it held before.
C19_Witness ==
    /\ lock_file = WrittenLock(ForeignPid, FALSE)
    /\ \A w \in Writers : pc[w] = "timed_out"
    /\ target_file = Payload(ForeignPid)
    /\ tmp_file = [w \in Writers |-> Absent]

-----------------------------------------------------------------------------
(* Properties of the access control manager, checked under SpecAccess *)

\* C20: when grant_role(u, r) returns has_role(u, r) is true, and when
\* revoke_role(u, r) returns it is false; has_role(u, r) turns false only in
\* a revoke_role(u, r) or an add_user(u, ...) and turns true only in a
\* grant_role(u, r) or an add_user(u, ...); and a grant or revoke for u
\* leaves the roles of every other user as they were.
C20_RoleChecksFollowLastMutation ==
    [][LET op == last'.op
           u == last'.args[1]
           holds(user, role) == user \in DOMAIN users /\ InList(role, users[user])
           held(user, role) == user \in DOMAIN users' /\ InList(role, users'[user])
       IN  /\ op = "grant_role" => held(u, last'.args[2])
           /\ op = "revoke_role" => ~held(u, last'.args[2])
           /\ \A user \in Users, role \in Roles :
                 /\ (holds(user, role) /\ ~held(user, role)) =>
                       /\ u = user
                       /\ \/ op = "revoke_role" /\ last'.args[2] = role
                          \/ op = "add_user"
                 /\ (~holds(user, role) /\ held(user, role)) =>
                       /\ u = user
                       /\ \/ op = "grant_role" /\ last'.args[2] = role
                          \/ op = "add_user"
           /\ op \in {"grant_role", "revoke_role"} =>
                 \A other \in (DOMAIN users \cup DOMAIN users') \ {u} :
                    /\ other \in DOMAIN users /\ other \in DOMAIN users'
                    /\ users'[other] = users[other]]_vars

-----------------------------------------------------------------------------
(* Properties of the bootstrap of access control, checked under SpecBoot *)

\* C21: a manager constructed on storage without a record for system holds
\* system with exactly the roles integrator and expert, every other stored
\* record as it was, and has saved that table; constructed on storage with a
\* record for system it holds the stored table and writes nothing; and while
\* a manager exists its table contains system and the file holds the table.
C21_SystemAlwaysPresent ==
    [][/\ last'.op = "get_access_control" =>
             LET stored == IF ac_storage.state = "table" THEN ac_storage.table
                           ELSE <<>>
             IN  IF "system" \in DOMAIN stored
                 THEN users' = stored /\ ac_storage' = ac_storage
                 ELSE /\ DOMAIN users' = DOMAIN stored \cup {"system"}
                      /\ users'["system"] = <<"integrator", "expert">>
                      /\ \A u \in DOMAIN stored : users'[u] = stored[u]
                      /\ ac_storage' = [state |-> "table", table |-> users']
       /\ manager' =>
             /\ "system" \in DOMAIN users'
             /\ ac_storage'.state = "table"
             /\ ac_storage'.table = users']_vars

\* C21 witness: a manager was constructed on storage whose record for system
\* holds the expert role alone, and holds it as stored: the integrator role
\* is not granted again.
C21_Witness ==
    /\ last.op = "get_access_control"
    /\ manager
    /\ users["system"] = <<"expert">>
    /\ ac_storage.table["system"] = <<"expert">>

\* C22: the Black Vault only grows: no step removes a hash from the vault
\* table of requests.db, and no call on a manager removes a hash from that
\* manager's in-memory set or from the other manager's, also when the
\* manager that saves was opened before the hash was added by the other one.
C22_VaultOnlyGrows ==
    [][/\ db_vault \subseteq db_vault'
       /\ (last'.op # "switch_ledger") =>
             /\ black_vault \subseteq black_vault'
             /\ peer.black_vault \subseteq peer'.black_vault]_vars

\* C23: an abandoned lock is reclaimed: with a lock file left by a process
\* that ended at any point of its hold, or older than the staleness
\* threshold, every writer that keeps trying eventually holds the lock.
C23_AbandonedLockIsReclaimed == \A w \in Writers : <>HoldsLock(w)

\* The listeners the event was submitted to, in submission order.
SubmittedTo(calls, event) ==
    LET of == SelectSeq(calls, LAMBDA c : c.event = event)
    IN  [k \in 1..Len(of) |-> of[k].cb]

\* C24: events are dispatched in the order they were put on the queue: the
\* thread takes the n-th item put as its n-th item, with the listeners
\* registered at that moment; the submissions are in the order of the items;
\* nothing of a later item is submitted before every listener of that copy
\* was handed the item at hand.  (The witness shows the second listener
\* done with an item the first one is still handling.)
C24_DispatchFollowsEnqueueOrder ==
    [][/\ (dispatch'.taken # dispatch.taken) =>
             /\ dispatch'.taken = dispatch.taken + 1
             /\ dispatch'.snapshot = approval_listeners
             /\ SubmittedTo(pool, dispatch.event) = dispatch.snapshot
       /\ dispatch'.event.seq = dispatch'.taken
       /\ \A k \in 1..Len(notify_queue') : notify_queue'[k].seq = dispatch'.taken + k
       /\ \A i, j \in 1..Len(pool') :
             (i < j) => pool'[i].event.seq <= pool'[j].event.seq
       /\ \A i \in 1..Len(pool') : pool'[i].event.seq <= dispatch'.event.seq
       /\ (dispatch'.pc = "get") =>
             SubmittedTo(pool', dispatch'.event) = dispatch'.snapshot]_vars

C24_Witness ==
    /\ Len(pool) = 4
    /\ pool[1].event.seq = 1 /\ pool[1].cb = "cb2" /\ pool[1].state = "running"
    /\ pool[2].event.seq = 1 /\ pool[2].cb = "cb1" /\ pool[2].state = "returned"
    /\ pool[3].event.seq = 2 /\ pool[4].event.seq = 2

\* The step is a raise of the listener called by the i-th submission.
RaisedAt(i) ==
    /\ i \in 1..Len(pool)
    /\ pool[i].state = "running"
    /\ Len(pool') = Len(pool)
    /\ pool'[i].state = "raised"

\* Nothing is left to do: the queue is empty, the thread waits in get()
\* with its last item submitted to every listener copied, and every
\* submitted call has returned or raised.
Quiescent ==
    /\ notify_queue = <<>>
    /\ dispatch.pc = "get"
    /\ SubmittedTo(pool, dispatch.event) = dispatch.snapshot
    /\ \A i \in 1..Len(pool) : pool[i].state \in {"returned", "raised"}

\* C25: a listener that raises affects neither the ledger nor the other
\* listeners: the raise changes no request, no row and no vault entry, nor
\* any other submitted call, nor the queue or the dispatcher; and whatever
\* raises, the thread goes on until every item put on the queue was
\* submitted to all listeners and every submitted call was run to its end.
C25_RaisingListenerIsContained ==
    /\ [][\A i \in 1..Len(pool) :
             RaisedAt(i) =>
                /\ UNCHANGED <<requests, black_vault, db_requests, db_vault,
                               approval_listeners, notify_queue, dispatch>>
                /\ \A j \in 1..Len(pool) : (j # i) => pool'[j] = pool[j]
                /\ pool'[i].cb = pool[i].cb /\ pool'[i].event = pool[i].event]_vars
    /\ []<>Quiescent

C25_Witness ==
    /\ Len(pool) >= 3
    /\ pool[1].cb = "cb2" /\ pool[1].state = "raised"
    /\ pool[2].cb = "cb1" /\ pool[2].state = "returned"
    /\ pool[2].event = pool[1].event
    /\ pool[3].event.seq = 2
    /\ requests[pool[1].event.req_id].status = APPROVED
    /\ requests[pool[1].event.req_id].response = "ok"

\* The place of a style in the order of the fallback: the chosen style
\* first, then the others as DEFAULT_STYLES lists them.
Rank(style, chosen_style) ==
    IF style = chosen_style THEN 0
    ELSE CHOOSE i \in DOMAIN DEFAULT_STYLES : DEFAULT_STYLES[i] = style

\* C26: when the rendering of the chosen style does not validate, the other
\* styles are tried in the order of DEFAULT_STYLES: a successful call reports
\* and writes the first style of that order whose rendering validates; when
\* none validates the call returns (it does not raise) a failure whose list
\* of tried styles is the chosen style followed by all others in that order.
C26_FallbackTakesFirstValidStyle ==
    [][(last'.op = "implement_request" /\ "style" \in DOMAIN last'.ret) =>
         LET topic == last'.args[2]
             description == last'.args[3]
             wanted == IF last'.args[4] = None THEN current_style ELSE last'.args[4]
             chosen == IF wanted \in StyleNames THEN wanted ELSE current_style'
             ret == last'.ret
         IN  IF ret.success
             THEN /\ Valid(topic, description, ret.style)
                  /\ \A s \in StyleNames :
                        (Rank(s, chosen) < Rank(ret.style, chosen)) =>
                           ~Valid(topic, description, s)
                  /\ generated'[ret.path].style = ret.style
             ELSE /\ \A s \in StyleNames : ~Valid(topic, description, s)
                  /\ ret.style = chosen
                  /\ Len(ret.tried) = Len(DEFAULT_STYLES)
                  /\ {ret.tried[i] : i \in DOMAIN ret.tried} = StyleNames
                  /\ \A i, j \in DOMAIN ret.tried :
                        (i < j) => Rank(ret.tried[i], chosen) < Rank(ret.tried[j], chosen)
                  /\ UNCHANGED <<generated, archives, seen>>]_vars

\* C26 witness: the chosen style and the five styles that come first in
\* DEFAULT_STYLES did not validate, and the call wrote the sixth, "concise".
C26_Witness ==
    /\ last.op = "implement_request"
    /\ last.args[4] = "functional"
    /\ last.ret.success
    /\ last.ret.style = "concise"
    /\ ~Valid(last.args[2], last.args[3], "idiomatic_python")
    /\ generated[last.ret.path].style = "concise"

\* C27: the set of seen fingerprints only grows, and from the moment the
\* fingerprint of a description is in it every call of implement_request
\* with that description returns ignored_seen and changes no generated
\* file, no archive and not the set, whether the request of that description
\* is pending, approved or denied.
C27_SeenDescriptionStaysIgnored ==
    /\ [][/\ seen \subseteq seen'
          /\ (/\ last'.op = "implement_request"
              /\ Sha256(last'.args[3]) \in seen) =>
                /\ last'.ret = [success |-> FALSE, reason |-> "ignored_seen",
                                fingerprint |-> Sha256(last'.args[3])]
                /\ UNCHANGED <<generated, archives, seen>>]_vars
    /\ \A d \in SeenDescriptions :
          [](Sha256(d) \in seen => [](Sha256(d) \in seen))

\* C27 witness: a description seen while its request was pending is ignored
\* again after the request was approved, and nothing was ever generated.
C27_Witness ==
    /\ last.op = "implement_request"
    /\ last.args[1] \in DOMAIN requests
    /\ requests[last.args[1]].status = APPROVED
    /\ requests[last.args[1]].description = last.args[3]
    /\ Sha256(last.args[3]) \in seen
    /\ last.ret.reason = "ignored_seen"
    /\ generated = <<>>

\* The entries of a list of the report that name the target.
EntriesFor(entries, tgt) == {i \in DOMAIN entries : entries[i].target = tgt}

\* The target holds the reference line of the module.
HoldsReference(file, mod_name) ==
    \E i \in 1..Len(file.imports) : file.imports[i] = mod_name

\* C28: an integration records one outcome for every pair of a generated
\* module and a target: skipped/missing when the target does not exist, and
\* the target is not created; skipped/already_imported when the target holds
\* the reference of the module, and the pair changes nothing; integrated
\* otherwise.  Every integrated pair appends one reference line, nothing else
\* is appended, and a target that was changed has a backup that holds the
\* text it had before its last change.
C28_OneOutcomePerPair ==
    [][(/\ last'.op \in {"integrate_across_project", "integrate_approved"}
        /\ "report" \in DOMAIN last'.ret) =>
          LET report == last'.ret.report
              tgts == DefaultTargets(last'.args[1])
              integrated == report.integrated
              skipped == report.skipped
          IN  /\ report.errors = <<>>
              /\ Len(integrated) + Len(skipped)
                    = Cardinality(DOMAIN generated) * Len(tgts)
              /\ \A i \in DOMAIN skipped :
                    IF skipped[i].reason = "missing"
                    THEN /\ ~targets[skipped[i].target].exists
                         /\ ~targets'[skipped[i].target].exists
                    ELSE /\ skipped[i].reason = "already_imported"
                         /\ HoldsReference(targets'[skipped[i].target],
                                           skipped[i].module)
              /\ \A i \in DOMAIN integrated :
                    /\ ~HoldsReference(targets[integrated[i].target],
                                       integrated[i].module)
                    /\ HoldsReference(targets'[integrated[i].target],
                                      integrated[i].module)
              /\ \A p \in TargetPaths :
                    LET n == Cardinality(EntriesFor(integrated, p))
                        was == targets[p].imports
                        now == targets'[p].imports
                    IN  /\ targets'[p].exists = targets[p].exists
                        /\ Len(now) = Len(was) + n
                        /\ SubSeq(now, 1, Len(was)) = was
                        /\ IF n = 0
                           THEN backups'[p] = backups[p]
                           ELSE backups'[p] =
                                   [exists |-> TRUE,
                                    imports |-> SubSeq(now, 1, Len(now) - 1)]]_vars

\* The step is an integration that returns a report, made right after an
\* integration of the same targets that returned a report.
SecondIntegration ==
    /\ last.op \in {"integrate_across_project", "integrate_approved"}
    /\ last'.op \in {"integrate_across_project", "integrate_approved"}
    /\ last'.args = last.args
    /\ "report" \in DOMAIN last.ret
    /\ "report" \in DOMAIN last'.ret

C30_MissingBackupIsAnErrorEntry ==
    [][last'.op = "rollback_integrations" =>
          LET entries == last'.args[1].report.integrated
              ret == last'.ret
          IN  /\ DOMAIN ret = {"restored", "errors"}
              /\ Len(ret.restored) + Len(ret.errors) = Len(entries)
              /\ \A i \in DOMAIN ret.errors : ret.errors[i].error = "backup_missing"
              /\ \A p \in TargetPaths :
                    LET k == Cardinality(EntriesFor(entries, p))
                        restored == Cardinality(EntriesFor(ret.restored, p))
                        errors == Cardinality(EntriesFor(ret.errors, p))
                    IN  IF k = 0 \/ ~backups[p].exists
                        THEN /\ targets'[p] = targets[p]
                             /\ backups'[p] = backups[p]
                             /\ restored = 0 /\ errors = k
                        ELSE /\ targets'[p] = backups[p]
                             /\ backups'[p] = NoFile
                             /\ restored = 1 /\ errors = k - 1]_vars

\* C30 witness: the first entry of the report, for src/app/main.py, had no
\* backup and is in errors; the second, for lib.py, was restored after it.
C30_Witness ==
    /\ last.op = "rollback_integrations"
    /\ Len(last.args[1].report.integrated) = 2
    /\ last.args[1].report.integrated[1].target = "src/app/main.py"
    /\ last.ret.errors =
          <<[target |-> "src/app/main.py", module |-> "gen", error |-> "backup_missing"]>>
    /\ last.ret.restored = <<[target |-> "lib.py", module |-> "gen"]>>
    /\ targets["src/app/main.py"].imports # <<>>
    /\ targets["lib.py"] = Original
    /\ ~backups["lib.py"].exists

-----------------------------------------------------------------------------
(* Properties of staging and activation, checked under SpecInteg *)

\* activated of the staged record at path p, FALSE when there is no record
IsActivated(records, p) == p \in DOMAIN records /\ records[p].activated

\* C31: the activated flag of a staged record becomes true only in an
\* activate_staged call on that record in which the requester held the
\* integrator role, the archived artifact of the record existed and the
\* integration reported success; a call that returns missing_artifact or
\* integration_failed leaves every staged record as it was, and
\* missing_artifact leaves the targets too.
C31_ActivatedOnlyBySuccessfulActivation ==
    [][/\ \A p \in StagedPaths :
             (IsActivated(staged', p) /\ ~IsActivated(staged, p)) =>
                /\ last'.op = "activate_staged"
                /\ last'.args[1] = p
                /\ last'.args[2] \in DOMAIN users
                /\ InList("integrator", users[last'.args[2]])
                /\ p \in DOMAIN staged
                /\ staged[p].archived \in archives
                /\ last'.ret.success
                /\ last'.ret.report.success
       /\ (/\ last'.op = "activate_staged"
           /\ "error" \in DOMAIN last'.ret
           /\ last'.ret.error \in {"missing_artifact", "integration_failed"}) =>
              /\ staged' = staged
              /\ last'.ret.error = "missing_artifact" =>
                    targets' = targets /\ backups' = backups]_vars

\* C31 witness: "alice", an integrator, called activate_staged on a record
\* whose artifact exists while integration was not allowed: the call returned
\* integration_failed and the record is still not activated.
C31_Witness ==
    /\ last.op = "activate_staged"
    /\ last.args[2] = "alice"
    /\ "error" \in DOMAIN last.ret
    /\ last.ret.error = "integration_failed"
    /\ last.args[1] \in DOMAIN staged
    /\ staged[last.args[1]].archived \in archives
    /\ ~staged[last.args[1]].activated

\* C32: activate_staged changes no target file unless, during that call, the
\* dependency audit and the generated test were run on every generated
\* module and left no failure that blocks; stated for the calls made while a
\* project is registered with the hub and its two agents are enabled.
C32_ActivationRunsTheQualityGate ==
    [][(/\ hub_project /\ agents_enabled
        /\ last'.op = "activate_staged" /\ targets' # targets) =>
          /\ DOMAIN generated \subseteq audited'
          /\ Filtered(failed_checks') = <<>>]_vars

\* C33: integrate_approved changes no target file unless, earlier in that
\* call, the dependency audit and the generated test were run on every file
\* under generated_dir, whether or not a project is registered with the hub.
C33_ApprovedIntegrationRunsTheQualityGate ==
    [][(last'.op = "integrate_approved" /\ targets' # targets) =>
          DOMAIN generated \cup archives \subseteq audited']_vars

\* C34: every successful stage_artifact call creates a staged file that did
\* not exist before the call and leaves every staged record that existed as
\* it was, a record already activated included.
C34_StagingNeverOverwrites ==
    [][(last'.op = "stage_artifact" /\ last'.ret.success) =>
          /\ last'.ret.staged \notin DOMAIN staged
          /\ \A p \in DOMAIN staged :
                p \in DOMAIN staged' /\ staged'[p] = staged[p]]_vars

\* C35: every _audit call adds its entry after all the entries the file held
\* when the entry is written, and loses or alters none of them, also when
\* listeners on the pool make their audit calls at the same time.
C35_AuditLogIsAppendOnly ==
    [][\A i \in 1..Len(pool) :
          (pool[i].state = "running" /\ pool'[i].state = "returned") =>
             audit_file' = Append(audit_file, AuditEntry(i))]_vars

\* _cut_communication has set the agent's entry inactive and the agent has
\* not been registered again since
IsCut(agent_id) == agent_id \in DOMAIN agents /\ ~agents[agent_id].active

\* C36: while an agent's communication is cut, a route_message sent by that
\* agent or addressed to it delivers nothing: it does not return delivered
\* true and calls receive_message on no object.
C36_CutAgentIsIsolated ==
    [][(/\ last'.op = "route_message"
        /\ (IsCut(last'.args[1]) \/ IsCut(last'.args[2]))) =>
          /\ ~last'.ret.delivered
          /\ \A i \in 1..Len(invoked') : invoked'[i][2] # "receive_message"]_vars

\* to_id is the project shorthand with a project registered, or a registered
\* agent id
KnownRecipient(to_id) == (to_id = PA /\ hub_project) \/ to_id \in DOMAIN agents

\* C37 as stated: route_message returns a result in every case; for a safe
\* message it returns unknown_recipient and calls nothing when the recipient
\* is unknown, returns delivered false with the error when the recipient's
\* receive_message raises, and otherwise returns delivered true after
\* calling the recipient.
C37_DeliveredAfterInvokingRecipient ==
    [][last'.op = "route_message" =>
          LET to_id == last'.args[2]
              ret == last'.ret
          IN  /\ "delivered" \in DOMAIN ret
              /\ cerberus_result'.is_safe =>
                    IF ~KnownRecipient(to_id)
                    THEN /\ ret = [delivered |-> FALSE, reason |-> "unknown_recipient"]
                         /\ invoked' = <<>>
                    ELSE /\ invoked' = <<<<to_id, "receive_message">>>>
                         /\ IF Recipient(to_id).receive_message = "raises"
                            THEN ~ret.delivered /\ "error" \in DOMAIN ret
                            ELSE ret = [delivered |-> TRUE]]_vars

\* C37 amended: as above, except that a known recipient without
\* receive_message (the project always, an agent object possibly) is called
\* on nothing and the result is delivered true all the same.
C37_DeliveredWhenNothingRaised ==
    [][last'.op = "route_message" =>
          LET to_id == last'.args[2]
              ret == last'.ret
          IN  /\ "delivered" \in DOMAIN ret
              /\ cerberus_result'.is_safe =>
                    IF ~KnownRecipient(to_id)
                    THEN /\ ret = [delivered |-> FALSE, reason |-> "unknown_recipient"]
                         /\ invoked' = <<>>
                    ELSE IF Recipient(to_id).receive_message = NoMethod
                    THEN /\ ret = [delivered |-> TRUE]
                         /\ invoked' = <<>>
                    ELSE /\ invoked' = <<<<to_id, "receive_message">>>>
                         /\ IF Recipient(to_id).receive_message = "raises"
                            THEN ~ret.delivered /\ "error" \in DOMAIN ret
                            ELSE ret = [delivered |-> TRUE]]_vars

\* C37 witness: with a project registered, a safe message to the project
\* shorthand returned delivered true and no object was called.
C37_Witness ==
    /\ last.op = "route_message"
    /\ cerberus_result.is_safe
    /\ last.args[2] = PA
    /\ hub_project
    /\ last.ret = [delivered |-> TRUE]
    /\ invoked = <<>>

-----------------------------------------------------------------------------
(* Properties of the read side, checked under SpecStats *)

\* C38: get_statistics returns pending + approved + denied equal to the
\* number of stored requests and vault_entries equal to the size of the
\* Black Vault, which is the number of distinct descriptions denied with
\* to_vault=True; get_pending returns the pending requests; neither call
\* changes the requests, the vault, the listeners, the queue or the database.
C38_StatisticsAgreeWithTheLedger ==
    [][/\ last'.op = "get_statistics" =>
             /\ last'.ret.pending + last'.ret.approved + last'.ret.denied
                   = Cardinality(DOMAIN requests)
             /\ last'.ret.vault_entries = Cardinality(black_vault)
             /\ last'.ret.vault_entries = Cardinality(denied_to_vault)
             /\ UNCHANGED ledgerVars
       /\ last'.op = "get_pending" =>
             /\ DOMAIN last'.ret = {id \in DOMAIN requests :
                                       requests[id].status = PENDING}
             /\ \A id \in DOMAIN last'.ret : last'.ret[id] = requests[id]
             /\ UNCHANGED ledgerVars]_vars

\* C38 witness: get_statistics has returned one approved and one denied
\* request and one vault entry, as in test_statistics_counts.
C38_Witness ==
    /\ last.op = "get_statistics"
    /\ last.ret = [pending |-> 0, approved |-> 1, denied |-> 1, vault_entries |-> 1]
    /\ Cardinality(DOMAIN requests) = 2

\* C39: a create_request that returns an id adds one request, PENDING,
\* under an id no request had before the call, and leaves every request that
\* existed as it was, whatever the topics, descriptions and creation times.
C39_CreateAddsOneNewRequest ==
    [][(last'.op = "create_request" /\ last'.ret # "") =>
          /\ last'.ret \notin DOMAIN requests
          /\ DOMAIN requests' = DOMAIN requests \cup {last'.ret}
          /\ requests'[last'.ret].status = PENDING
          /\ \A id \in DOMAIN requests : requests'[id] = requests[id]]_vars

\* the result of an integration that recorded an error
HasErrors(result) == "report" \in DOMAIN result /\ result.report.errors # <<>>

\* C40: an integration that recorded an error does not return success, and
\* an activate_staged whose integration recorded an error returns no success
\* and leaves the staged record as it was.
C40_SuccessMeansNoError ==
    [][/\ (last'.op = "integrate_across_project" /\ HasErrors(last'.ret)) =>
             ~last'.ret.success
       /\ (/\ last'.op = "activate_staged"
           /\ "report" \in DOMAIN last'.ret
           /\ HasErrors(last'.ret.report)) =>
              /\ ~last'.ret.success
              /\ staged' = staged]_vars

====
